---- MODULE Spec2Model ----
(***************************************************************************)
(* Model of pretorin.agent.codex_runtime: the pinned Codex binary          *)
(* lifecycle (CodexRuntime.ensure_installed and the stages it calls) over  *)
(* a small file system, a release server and a set of release archives;    *)
(* and the other methods of CodexRuntime (platform detection, build_env,   *)
(* the TOML helpers, write_config, cleanup_old_versions), each under a     *)
(* specification of its own; and the callers of the runtime: CodexAgent    *)
(* (codex_agent.py), the command "agent install" (cli/agent.py) and        *)
(* MCPConfigManager (mcp_config.py), the writer of the mcp.json that       *)
(* write_config reads.                                                     *)
(*                                                                         *)
(* File names are sequences of characters, so that Path(name).name,        *)
(* str.startswith and the "codex-<version>" naming are computed and not    *)
(* assumed.  File modes are sets of permission bits.  Every method of the  *)
(* runtime is a sequence of steps (one per blocking call), each an action. *)
(***************************************************************************)
EXTENDS Integers, Sequences, FiniteSets, TLC

\* ------------------------------------------------------------------ bounds

\* calls of ensure_installed one runtime object makes
MaxCalls == 2

\* ------------------------------------------------------------ file names

N_codex == <<"c", "o", "d", "e", "x">>
N_codex_dash == N_codex \o <<"-">>
N_codex_cli == N_codex_dash \o <<"c", "l", "i">>
N_dist == <<"d", "i", "s", "t">>
N_readme == <<"R", "E", "A", "D", "M", "E">>
N_other_tool == <<"o", "t", "h", "e", "r", "-", "t", "o", "o", "l">>

\* str.startswith
StartsWith(s, prefix) ==
    /\ Len(s) >= Len(prefix)
    /\ SubSeq(s, 1, Len(prefix)) = prefix

\* Path(name).name: the last component of a member name
BaseName(name) == name[Len(name)]

\* The versions a runtime object may be pinned to (CodexRuntime(version=...)).
Versions == {<<"v", "1">>, <<"v", "2">>}

\* binary_path.name: f"codex-{self.version}"
binary_name_unversioned(v) == N_codex_dash \o <<"v">>
binary_name(v) == N_codex_dash \o v

\* The entries the bin directory may hold: the binaries of the versions and
\* three files that are not binaries of a version: "other-tool", "codex" and
\* "codex-cli".
BinNames == {binary_name(v) : v \in Versions} \cup {N_other_tool, N_codex, N_codex_cli}

\* ------------------------------------------------------------- file modes

S_IXUSR == 64
S_IXGRP == 8
S_IXOTH == 1
S_IRUSR == 256
S_IWUSR == 128

\* 0o111, the mask is_installed tests
AnyExecMask == {S_IXUSR, S_IXGRP, S_IXOTH}

\* The bits _make_executable unions into the mode.
ExecBitsOwnerMissing == {S_IXGRP, S_IXOTH}
ExecBits == {S_IXUSR, S_IXGRP, S_IXOTH}

\* The mode open(path, "wb") gives a file it creates: read and write bits as
\* the umask leaves them, never an execute bit.
NewFileModeExecutable == {S_IRUSR, S_IWUSR, S_IXUSR}
NewFileMode == {S_IRUSR, S_IWUSR}

ModeNoExec == {S_IRUSR, S_IWUSR}
ModeOwnerExec == {S_IRUSR, S_IWUSR, S_IXUSR}
ModeGroupExecOnly == {S_IRUSR, S_IWUSR, S_IXGRP}
ModeAllExec == {S_IRUSR, S_IWUSR} \cup ExecBits

NoFile == [exists |-> FALSE, data |-> "", full |-> FALSE, mode |-> {}]
File(d, f, m) == [exists |-> TRUE, data |-> d, full |-> f, mode |-> m]

\* --------------------------------------------------------------- archives

FileMember(n, d) == [name |-> n, isfile |-> TRUE, data |-> d, mode |-> ModeAllExec]
DirMember(n) == [name |-> n, isfile |-> FALSE, data |-> "", mode |-> ModeAllExec]

\* The release archives the server may deliver.  A corrupt archive is one
\* tarfile.open cannot read.
ArchFlat == [corrupt |-> FALSE, members |-> <<FileMember(<<N_codex>>, "B1")>>]
ArchNested ==
    [corrupt |-> FALSE,
     members |-> <<DirMember(<<N_dist>>), FileMember(<<N_dist, N_codex>>, "B2")>>]
ArchDirFirst ==
    [corrupt |-> FALSE,
     members |-> <<DirMember(<<N_codex_dash \o N_dist>>),
                   FileMember(<<N_codex_dash \o N_dist, N_codex>>, "B3")>>]
ArchTwo ==
    [corrupt |-> FALSE,
     members |-> <<FileMember(<<N_readme>>, "B0"),
                   FileMember(<<N_dist, N_codex_cli>>, "B4"),
                   FileMember(<<N_codex>>, "B1")>>]
ArchDup ==
    [corrupt |-> FALSE,
     members |-> <<FileMember(<<N_codex>>, "B1"), FileMember(<<N_codex>>, "B5")>>]
ArchNone ==
    [corrupt |-> FALSE,
     members |-> <<DirMember(<<N_dist>>), FileMember(<<N_dist, N_readme>>, "B0")>>]
ArchCorrupt == [corrupt |-> TRUE, members |-> <<>>]

Archives ==
    <<ArchFlat, ArchNested, ArchDirFirst, ArchTwo, ArchDup, ArchNone, ArchCorrupt>>
ArchIds == 1 .. Len(Archives)

\* What a temporary file holds of the body written to it in chunks of 8192
\* bytes: nothing yet, some chunks, or all of them.  Which archive the body
\* is shows once it is complete.
BodyStates == {"none", "part", "all"}

\* hashlib.sha256(...).hexdigest() of a file holding archive a (0: no archive
\* yet) up to n: distinct contents have distinct digests.
Sha256Hex(a, n) == <<"sha256", a, n>>
NoDigest == <<>>

\* ---------------------------------------------------------------- platform

Hosts ==
    {<<"Darwin", "arm64">>, <<"Darwin", "x86_64">>,
     <<"Linux", "x86_64">>, <<"Windows", "AMD64">>}

\* More answers of platform.system() and platform.machine(): other
\* spellings of the supported names, other architectures, another system.
PlatformHosts ==
    Hosts \cup
    {<<"Darwin", "ARM64">>, <<"DARWIN", "arm64">>, <<"Darwin", "X86_64">>,
     <<"Darwin", "i386">>, <<"Linux", "aarch64">>, <<"LINUX", "X86_64">>,
     <<"Windows", "ARM64">>, <<"FreeBSD", "amd64">>}

\* str.lower on the names platform.system() and platform.machine() return
Lower(s) ==
    CASE s = "Darwin" -> "darwin"
      [] s = "DARWIN" -> "darwin"
      [] s = "Linux" -> "linux"
      [] s = "LINUX" -> "linux"
      [] s = "Windows" -> "windows"
      [] s = "FreeBSD" -> "freebsd"
      [] s = "AMD64" -> "amd64"
      [] s = "ARM64" -> "arm64"
      [] s = "X86_64" -> "x86_64"
      [] OTHER -> s

Unsupported == "unsupported"

detect_platform_exact(h) ==
    IF h[1] = "darwin"
    THEN (IF h[2] = "arm64" THEN "darwin-arm64" ELSE "darwin-x64")
    ELSE IF h[1] = "linux" THEN "linux-x64" ELSE Unsupported
detect_platform(h) ==
    LET system == Lower(h[1])
        machine == Lower(h[2])
    IN  IF system = "darwin"
        THEN (IF machine = "arm64" THEN "darwin-arm64" ELSE "darwin-x64")
        ELSE IF system = "linux" THEN "linux-x64" ELSE Unsupported

PlatformKeys == {"darwin-arm64", "darwin-x64", "linux-x64"}

\* ------------------------------------------------------------------ state

VARIABLES
    procs,      \* the processes, each holding one CodexRuntime object
    host,       \* <<platform.system(), platform.machine()>>
    checksums,  \* CODEX_CHECKSUMS: platform key -> expected digest
    version,    \* version[p]: self.version
    outside,    \* what was done to an installed binary from outside, so far
    binDir,     \* whether ~/.pretorin/bin exists
    bin,        \* bin[name]: the file ~/.pretorin/bin/<name>
    tmp,        \* the temporary files created so far, in creation order
    xdir,       \* xdir[p]: the temporary extraction directory of p
    pc,         \* pc[p]: where p is in ensure_installed
    ncalls,     \* ncalls[p]: calls of ensure_installed p has made
    dest0,      \* dest0[p]: the file at binary_path when p's call began
    tmp_path,   \* tmp_path[p]: the local tmp_path of _download (0: none)
    tarball,    \* tarball[p]: self._tarball_path (0: attribute not set)
    resp,       \* resp[p]: the archive the open response delivers
    actual,     \* actual[p]: the local actual of _verify_checksum
    member,     \* member[p]: the local codex_member of _extract_tarball
    result,     \* result[p]: how p's last call ended
    log,        \* log[p]: what p's current or last call has done, in order
    net,        \* HTTP requests made so far
    environ,    \* environ[p]: os.environ of process p
    home,       \* the files under the home directory outside ~/.pretorin/bin
    args,       \* args[p]: the arguments of p's last call of a method below
    cli,        \* cli[p]: the "agent install" command run by p
    agent,      \* agent[p]: the CodexAgent object of p and its run
    mgr         \* mgr[p]: the MCPConfigManager object of p

vars ==
    <<procs, host, checksums, version, outside, binDir, bin, tmp, xdir, pc, ncalls, dest0,
      tmp_path, tarball, resp, actual, member, result, log, net, environ, home, args,
      cli, agent, mgr>>

fsVars == <<binDir, bin, tmp, xdir>>
envVars == <<procs, host, checksums, version, outside>>
apiVars == <<environ, home, args>>
appVars == <<cli, agent, mgr>>

NoResult == [st |-> "none", kind |-> "", info |-> <<>>]
Ok(path) == [st |-> "ok", kind |-> "", info |-> <<path>>]
Err(kind, info) == [st |-> "error", kind |-> kind, info |-> info]

NoDir == [exists |-> FALSE, files |-> {}]

\* A dict with no key.
EmptyMap == <<>>

\* Text files are sequences of characters; a file that does not exist is NoText.
NoText == <<"<absent>">>

\* The home directory, where the model does not look into it: the
\* directories below it and the text of each file.
NoHome == [dirs |-> {}, files |-> <<>>]
NoArgs == <<>>

\* self.binary_path, as the entry name under bin_dir
binary_path(p) == binary_name(version[p])

\* ---------------------------------------------------------- initial state

\* The bin directory before the first call: absent, or holding another
\* version's binary, an unrelated file and possibly a file at the pinned path.
InitialDest ==
    {NoFile, File("old", TRUE, ModeNoExec), File("old", TRUE, ModeOwnerExec),
     File("old", TRUE, ModeGroupExecOnly)}

\* CODEX_CHECKSUMS registers for every platform the digest of one published
\* archive; a table lacking the entry of a platform is the case
\* CODEX_CHECKSUMS.get(plat, "") answers with "".
ChecksumsWithoutLinux ==
    [k \in PlatformKeys |-> IF k = "linux-x64" THEN NoDigest ELSE Sha256Hex(1, "all")]
ChecksumTables ==
    {[k \in PlatformKeys |-> Sha256Hex(a, "all")] : a \in ArchIds}
    \cup {ChecksumsWithoutLinux}

\* The bin directory: absent, or holding the other versions' binaries, an
\* unrelated file and file d at the pinned path.
InitBin(P, dests) ==
    \/ /\ binDir = FALSE
       /\ bin = [n \in BinNames |-> NoFile]
    \/ /\ binDir = TRUE
       /\ \E d \in dests :
             bin = [n \in BinNames |->
                       IF n = binary_name(version[CHOOSE p \in P : TRUE]) THEN d
                       ELSE IF n = N_other_tool THEN File("tool", TRUE, ModeAllExec)
                       ELSE IF n \in {N_codex, N_codex_cli} THEN NoFile
                       ELSE File("old", TRUE, ModeAllExec)]

\* No call of ensure_installed made yet.
InitPipeline(P) ==
    /\ tmp = <<>>
    /\ xdir = [p \in P |-> NoDir]
    /\ pc = [p \in P |-> "idle"]
    /\ ncalls = [p \in P |-> 0]
    /\ dest0 = [p \in P |-> NoFile]
    /\ tmp_path = [p \in P |-> 0]
    /\ tarball = [p \in P |-> 0]
    /\ resp = [p \in P |-> 0]
    /\ actual = [p \in P |-> NoDigest]
    /\ member = [p \in P |-> <<>>]
    /\ result = [p \in P |-> NoResult]
    /\ log = [p \in P |-> <<>>]
    /\ net = 0

\* Python's None where a string may stand.
None == "<None>"

\* No CodexAgent object.
NoAgent ==
    [pc |-> "none", arg |-> None, stored |-> None, model |-> <<>>, base_url |-> <<>>,
     api_key |-> None, error |-> "", n0 |-> 0, binary_path |-> <<>>, env |-> <<>>,
     spawned |-> <<>>]

InitApp(P) ==
    /\ cli = [p \in P |-> [pc |-> "idle", json |-> FALSE, n0 |-> 0, exit |-> -1, out |-> <<>>]]
    /\ agent = [p \in P |-> NoAgent]
    /\ mgr = [p \in P |-> [made |-> FALSE, servers |-> <<>>]]
    /\ outside = {}

\* The state the methods other than ensure_installed work on, where they are
\* not called.
InitApi(P) ==
    /\ environ = [p \in P |-> EmptyMap]
    /\ home = NoHome
    /\ args = [p \in P |-> NoArgs]
    /\ InitApp(P)


InitFor(P) ==
    /\ procs = P
    /\ host \in Hosts
    /\ checksums \in ChecksumTables
    /\ \E v \in Versions : version = [p \in P |-> v]
    /\ InitBin(P, InitialDest)
    /\ InitPipeline(P)
    /\ InitApi(P)

Init == InitFor({1})

\* ------------------------------------------------------------- operators

\* is_installed: p.exists() and bool(p.stat().st_mode & 0o111)
is_installed_cached(p) ==
    \/ result[p].st = "ok"
    \/ bin[binary_path(p)].exists /\ bin[binary_path(p)].mode \cap AnyExecMask # {}
is_installed_never(p) == FALSE
is_installed(p) ==
    /\ bin[binary_path(p)].exists
    /\ bin[binary_path(p)].mode \cap AnyExecMask # {}

NoTmp == [exists |-> FALSE, arch |-> 0, n |-> "none"]
EmptyTmp == [exists |-> TRUE, arch |-> 0, n |-> "none"]

\* Path.unlink(missing_ok=True) of temporary file id
UnlinkedKept(files, id) == files
Unlinked(files, id) == [files EXCEPT ![id] = NoTmp]

\* not expected (line 218): no digest is registered for the platform
NoChecksumNever(expected) == FALSE
NoChecksum(expected) == expected = NoDigest

\* actual != expected (line 229), negated
DigestsAlwaysMatch(a, e) == TRUE
DigestsMatch(a, e) == a = e

\* Where a call is after a stage raised: ensure_installed catches nothing,
\* the exception leaves the call.
AfterRaiseSwallowed(stage) == IF stage = "extract" THEN "chmod" ELSE "idle"
AfterRaise(stage) == "idle"

Raise(p, stage, e) ==
    /\ result' = [result EXCEPT ![p] = e]
    /\ pc' = [pc EXCEPT ![p] = AfterRaise(stage)]

Goto(p, where) == pc' = [pc EXCEPT ![p] = where]

Logged(p, events) == log' = [log EXCEPT ![p] = @ \o events]

\* The condition of the member search: the base name is "codex" or starts
\* with "codex-".
NameMatchesTopLevelOnly(name) == name = <<N_codex>>
NameMatches(name) ==
    \/ BaseName(name) = N_codex
    \/ StartsWith(BaseName(name), N_codex_dash)

\* tar.getnames()
GetNames(a) == [i \in 1 .. Len(a.members) |-> a.members[i].name]

\* The for loop over the member names: the first name that matches, <<>> for
\* codex_member = None.
FindMember(a) ==
    LET names == GetNames(a)
        hits == {i \in 1 .. Len(names) : NameMatches(names[i])}
    IN  IF hits = {} THEN <<>>
        ELSE names[CHOOSE i \in hits : \A j \in hits : i <= j]

\* tar.getmember(name): the last member of that name.
GetMember(a, name) ==
    LET hits == {i \in 1 .. Len(a.members) : a.members[i].name = name}
    IN  a.members[CHOOSE i \in hits : \A j \in hits : j <= i]

\* tar.extractfile(name) is None for a member that is not a file.
ExtractFileIsNone(a, name) == ~GetMember(a, name).isfile

\* tar.extractall(extract_dir): the files of the tree, a later member of the
\* same name replacing an earlier one.
ExtractedFiles(a) ==
    {GetMember(a, a.members[i].name) : i \in 1 .. Len(a.members)}
        \cap {m \in {a.members[i] : i \in 1 .. Len(a.members)} : m.isfile}

\* The names the walk of the extracted tree looks for.
WalkNamesWithReadme == {N_codex, N_codex_cli, N_readme}
WalkNames == {N_codex, N_codex_cli}

WalkCandidates(files) == {f \in files : BaseName(f.name) \in WalkNames}

\* The archive a temporary file holds, as tarfile.open reads it.
Readable(f) == f.exists /\ f.arch # 0 /\ f.n = "all" /\ ~Archives[f.arch].corrupt

\* open(path, "wb"): the file truncated, or created.
OpenedForWriteReplaced(f) == File("", TRUE, NewFileMode)
OpenedForWrite(f) ==
    IF f.exists THEN [f EXCEPT !.data = "", !.full = TRUE] ELSE File("", TRUE, NewFileMode)

\* ---------------------------------------------------------------- actions

\* ensure_installed, up to its first blocking call: the installed binary's
\* path at once, or the start of the pipeline.
ensure_installed(p) ==
    /\ pc[p] = "idle"
    /\ ncalls[p] < MaxCalls
    /\ ncalls' = [ncalls EXCEPT ![p] = @ + 1]
    /\ dest0' = [dest0 EXCEPT ![p] = bin[binary_path(p)]]
    /\ log' = [log EXCEPT ![p] = <<>>]
    /\ tmp_path' = [tmp_path EXCEPT ![p] = 0]
    /\ resp' = [resp EXCEPT ![p] = 0]
    /\ actual' = [actual EXCEPT ![p] = NoDigest]
    /\ member' = [member EXCEPT ![p] = <<>>]
    /\ IF is_installed(p)
       THEN /\ result' = [result EXCEPT ![p] = Ok(binary_path(p))]
            /\ UNCHANGED pc
       ELSE /\ result' = [result EXCEPT ![p] = NoResult]
            /\ Goto(p, "download")
    /\ UNCHANGED <<envVars, appVars, apiVars, fsVars, tarball, net>>

\* _download, lines 189-197: the platform, the bin directory, the temporary
\* file.
download_begin(p) ==
    /\ pc[p] = "download"
    /\ IF detect_platform(host) = Unsupported
       THEN /\ Raise(p, "download",
                     Err("UnsupportedPlatform", <<Lower(host[1]), Lower(host[2])>>))
            /\ Logged(p, <<"Download", "detect">>)
            /\ UNCHANGED <<binDir, tmp, tmp_path>>
       ELSE /\ binDir' = TRUE
            /\ tmp' = Append(tmp, EmptyTmp)
            /\ tmp_path' = [tmp_path EXCEPT ![p] = Len(tmp) + 1]
            /\ Logged(p, <<"Download", "detect", detect_platform(host), "mkdir", "mkstemp">>)
            /\ Goto(p, "request")
            /\ UNCHANGED result
    /\ UNCHANGED <<envVars, appVars, apiVars, bin, xdir, ncalls, dest0, tarball, resp, actual, member, net>>

\* The failures of httpx that end a request before its body is read.
RequestFailures == {"ConnectError", "ConnectTimeout", "HTTPStatusError"}

\* httpx.stream("GET", ...), raise_for_status and open(tmp_path, "wb").
download_request(p) ==
    /\ pc[p] = "request"
    /\ net' = net + 1
    /\ Logged(p, <<"GET">>)
    /\ \/ \E cause \in RequestFailures :
            /\ tmp' = Unlinked(tmp, tmp_path[p])
            /\ Raise(p, "download", Err("DownloadFailure", <<cause>>))
       \/ /\ tmp' = [tmp EXCEPT ![tmp_path[p]] = EmptyTmp]
          /\ Goto(p, "stream")
          /\ UNCHANGED result
    /\ UNCHANGED <<envVars, appVars, apiVars, binDir, bin, xdir, ncalls, dest0, tmp_path, tarball, resp, actual,
                   member>>

\* Turns of the loop over response.iter_bytes: chunks written, the last of
\* them completing the archive the server sent.
download_chunk(p) ==
    /\ pc[p] = "stream"
    /\ \/ /\ tmp[tmp_path[p]].n = "none"
          /\ tmp' = [tmp EXCEPT ![tmp_path[p]].n = "part"]
          /\ UNCHANGED resp
       \/ /\ tmp[tmp_path[p]].n = "part"
          /\ \E a \in ArchIds :
                /\ tmp' = [tmp EXCEPT ![tmp_path[p]] = [exists |-> TRUE, arch |-> a, n |-> "all"]]
                /\ resp' = [resp EXCEPT ![p] = a]
    /\ UNCHANGED <<envVars, appVars, apiVars, binDir, bin, xdir, pc, ncalls, dest0, tmp_path, tarball,
                   actual, member, result, log, net>>

\* The body stream fails (httpx.ReadError, httpx.ReadTimeout): line 209.
download_stream_error(p) ==
    /\ pc[p] = "stream"
    /\ tmp[tmp_path[p]].n # "all"
    /\ \E cause \in {"ReadError", "ReadTimeout"} :
          Raise(p, "download", Err("DownloadFailure", <<cause>>))
    /\ tmp' = Unlinked(tmp, tmp_path[p])
    /\ UNCHANGED <<envVars, appVars, apiVars, binDir, bin, xdir, ncalls, dest0, tmp_path, tarball, resp,
                   actual, member, log, net>>

\* f.write raises OSError (a full disk): no except clause catches it.
download_write_error(p) ==
    /\ pc[p] = "stream"
    /\ tmp[tmp_path[p]].n # "all"
    /\ Raise(p, "download", Err("OSError", <<"write">>))
    /\ UNCHANGED <<envVars, appVars, apiVars, fsVars, ncalls, dest0, tmp_path, tarball, resp, actual, member,
                   log, net>>

\* The body is written: self._tarball_path = tmp_path, and _download returns.
download_end(p) ==
    /\ pc[p] = "stream"
    /\ tmp[tmp_path[p]].n = "all"
    /\ tarball' = [tarball EXCEPT ![p] = tmp_path[p]]
    /\ Logged(p, <<"Download.ok">>)
    /\ Goto(p, "verify")
    /\ UNCHANGED <<envVars, appVars, apiVars, fsVars, ncalls, dest0, tmp_path, resp, actual, member, result, net>>

\* _verify_checksum, lines 215-221: the expected digest of the platform.
verify_begin(p) ==
    /\ pc[p] = "verify"
    /\ IF NoChecksum(checksums[detect_platform(host)])
       THEN /\ Logged(p, <<"Verify", "detect", "warning", "Verify.skipped">>)
            /\ Goto(p, "extract")
       ELSE /\ Logged(p, <<"Verify", "detect">>)
            /\ Goto(p, "hash")
    /\ UNCHANGED <<envVars, appVars, apiVars, fsVars, ncalls, dest0, tmp_path, tarball, resp, actual, member,
                   result, net>>

\* Lines 223-228: the digest of the file _tarball_path names.
verify_hash(p) ==
    /\ pc[p] = "hash"
    /\ tmp[tarball[p]].exists
    /\ actual' = [actual EXCEPT ![p] = Sha256Hex(tmp[tarball[p]].arch, tmp[tarball[p]].n)]
    /\ Logged(p, <<"hash">>)
    /\ Goto(p, "compare")
    /\ UNCHANGED <<envVars, appVars, apiVars, fsVars, ncalls, dest0, tmp_path, tarball, resp, member, result, net>>

\* open or f.read raises OSError while hashing: nothing catches it.
verify_read_error(p) ==
    /\ pc[p] = "hash"
    /\ Raise(p, "verify", Err("OSError", <<"read">>))
    /\ UNCHANGED <<envVars, appVars, apiVars, fsVars, ncalls, dest0, tmp_path, tarball, resp, actual, member,
                   log, net>>

\* Lines 229-237: the comparison.
verify_compare(p) ==
    /\ pc[p] = "compare"
    /\ IF DigestsMatch(actual[p], checksums[detect_platform(host)])
       THEN /\ Logged(p, <<"Verify.ok">>)
            /\ Goto(p, "extract")
            /\ UNCHANGED <<tmp, result>>
       ELSE /\ tmp' = Unlinked(tmp, tarball[p])
            /\ Raise(p, "verify",
                     Err("ChecksumMismatch",
                         <<checksums[detect_platform(host)], actual[p]>>))
            /\ UNCHANGED log
    /\ UNCHANGED <<envVars, appVars, apiVars, binDir, bin, xdir, ncalls, dest0, tmp_path, tarball, resp, actual,
                   member, net>>

\* _extract_tarball, lines 242-252 and 265-268: the archive opened, the
\* member searched by name and, when one is found, opened together with the
\* destination.  The finally clause unlinks the archive on every raise.
extract_open(p) ==
    /\ pc[p] = "extract"
    /\ LET f == tmp[tarball[p]]
           a == Archives[f.arch]
       IN  IF ~Readable(f)
           THEN /\ tmp' = Unlinked(tmp, tarball[p])
                /\ Raise(p, "extract", Err("ReadError", <<"tarfile.open">>))
                /\ Logged(p, <<"Extract", "tarfile.open">>)
                /\ UNCHANGED <<bin, member>>
           ELSE IF FindMember(a) = <<>>
           THEN /\ member' = [member EXCEPT ![p] = <<>>]
                /\ Logged(p, <<"Extract", "tarfile.open">>)
                /\ Goto(p, "fallback")
                /\ UNCHANGED <<bin, tmp, result>>
           ELSE IF ExtractFileIsNone(a, FindMember(a))
           THEN /\ member' = [member EXCEPT ![p] = FindMember(a)]
                /\ tmp' = Unlinked(tmp, tarball[p])
                /\ Raise(p, "extract", Err("ExtractionFailure", <<"Could not extract">>))
                /\ Logged(p, <<"Extract", "tarfile.open", "extractfile">>)
                /\ UNCHANGED bin
           ELSE /\ member' = [member EXCEPT ![p] = FindMember(a)]
                /\ bin' = [bin EXCEPT ![binary_path(p)] = OpenedForWrite(@)]
                /\ Logged(p, <<"Extract", "tarfile.open", "extractfile", "open.wb">>)
                /\ Goto(p, "copy")
                /\ UNCHANGED <<tmp, result>>
    /\ UNCHANGED <<envVars, appVars, apiVars, binDir, xdir, ncalls, dest0, tmp_path, tarball, resp, actual, net>>

\* shutil.copyfileobj(extracted, out), the with blocks left, the finally clause.
extract_copy(p) ==
    /\ pc[p] = "copy"
    /\ LET m == GetMember(Archives[tmp[tarball[p]].arch], member[p])
       IN  bin' = [bin EXCEPT ![binary_path(p)] = [@ EXCEPT !.data = m.data, !.full = TRUE]]
    /\ tmp' = Unlinked(tmp, tarball[p])
    /\ Logged(p, <<"copyfileobj", "Extract.ok">>)
    /\ Goto(p, "chmod")
    /\ UNCHANGED <<envVars, appVars, apiVars, binDir, xdir, ncalls, dest0, tmp_path, tarball, resp, actual,
                   member, result, net>>

\* The copy raises OSError part-way: a part of the member is at the
\* destination; the finally clause runs.
extract_copy_error(p) ==
    /\ pc[p] = "copy"
    /\ LET m == GetMember(Archives[tmp[tarball[p]].arch], member[p])
       IN  bin' = [bin EXCEPT ![binary_path(p)] = [@ EXCEPT !.data = m.data, !.full = FALSE]]
    /\ tmp' = Unlinked(tmp, tarball[p])
    /\ Raise(p, "extract", Err("OSError", <<"copyfileobj">>))
    /\ Logged(p, <<"copyfileobj">>)
    /\ UNCHANGED <<envVars, appVars, apiVars, binDir, xdir, ncalls, dest0, tmp_path, tarball, resp, actual,
                   member, net>>

\* Lines 254-255: the temporary directory and tar.extractall into it.
extract_all(p) ==
    /\ pc[p] = "fallback"
    /\ xdir' = [xdir EXCEPT ![p] =
                  [exists |-> TRUE, files |-> ExtractedFiles(Archives[tmp[tarball[p]].arch])]]
    /\ Logged(p, <<"mkdtemp", "extractall">>)
    /\ Goto(p, "walk")
    /\ UNCHANGED <<envVars, appVars, apiVars, binDir, bin, tmp, ncalls, dest0, tmp_path, tarball, resp, actual,
                   member, result, net>>

\* tar.extractall raises: the with block removes the directory, the finally
\* clause the archive.
extract_all_error(p) ==
    /\ pc[p] = "fallback"
    /\ tmp' = Unlinked(tmp, tarball[p])
    /\ Raise(p, "extract", Err("OSError", <<"extractall">>))
    /\ Logged(p, <<"mkdtemp", "extractall">>)
    /\ UNCHANGED <<envVars, appVars, apiVars, binDir, bin, xdir, ncalls, dest0, tmp_path, tarball, resp, actual,
                   member, net>>

\* Lines 257-263: the walk of the extracted tree; the first candidate met (in
\* the order the file system lists it) is copied with its mode, else the
\* extraction fails.  The directory and the archive are removed either way.
extract_walk(p) ==
    /\ pc[p] = "walk"
    /\ LET cands == WalkCandidates(xdir[p].files)
       IN  IF cands # {}
           THEN /\ \E f \in cands :
                     bin' = [bin EXCEPT ![binary_path(p)] = File(f.data, TRUE, f.mode)]
                /\ Logged(p, <<"walk", "copy2", "Extract.ok">>)
                /\ Goto(p, "chmod")
                /\ UNCHANGED result
           ELSE /\ Raise(p, "extract",
                         Err("ExtractionFailure", <<"Could not find codex binary in tarball">>))
                /\ Logged(p, <<"walk">>)
                /\ UNCHANGED bin
    /\ xdir' = [xdir EXCEPT ![p] = NoDir]
    /\ tmp' = Unlinked(tmp, tarball[p])
    /\ UNCHANGED <<envVars, appVars, apiVars, binDir, ncalls, dest0, tmp_path, tarball, resp, actual, member, net>>

\* _make_executable, and the return of ensure_installed.
make_executable(p) ==
    /\ pc[p] = "chmod"
    /\ IF bin[binary_path(p)].exists
       THEN /\ bin' = [bin EXCEPT ![binary_path(p)].mode = @ \cup ExecBits]
            /\ result' = [result EXCEPT ![p] = Ok(binary_path(p))]
            /\ Logged(p, <<"SetPermissions", "chmod", "SetPermissions.ok">>)
       ELSE /\ result' = [result EXCEPT ![p] = Err("OSError", <<"stat">>)]
            /\ Logged(p, <<"SetPermissions">>)
            /\ UNCHANGED bin
    /\ Goto(p, "idle")
    /\ UNCHANGED <<envVars, appVars, apiVars, binDir, tmp, xdir, ncalls, dest0, tmp_path, tarball, resp, actual,
                   member, net>>

\* chmod raises (PermissionError on a file another user owns).
make_executable_error(p) ==
    /\ pc[p] = "chmod"
    /\ result' = [result EXCEPT ![p] = Err("OSError", <<"chmod">>)]
    /\ Logged(p, <<"SetPermissions", "chmod">>)
    /\ Goto(p, "idle")
    /\ UNCHANGED <<envVars, appVars, apiVars, fsVars, ncalls, dest0, tmp_path, tarball, resp, actual, member, net>>

Next ==
    \/ \E p \in procs : ensure_installed(p)
    \/ \E p \in procs : download_begin(p)
    \/ \E p \in procs : download_request(p)
    \/ \E p \in procs : download_chunk(p)
    \/ \E p \in procs : download_stream_error(p)
    \/ \E p \in procs : download_write_error(p)
    \/ \E p \in procs : download_end(p)
    \/ \E p \in procs : verify_begin(p)
    \/ \E p \in procs : verify_hash(p)
    \/ \E p \in procs : verify_read_error(p)
    \/ \E p \in procs : verify_compare(p)
    \/ \E p \in procs : extract_open(p)
    \/ \E p \in procs : extract_copy(p)
    \/ \E p \in procs : extract_copy_error(p)
    \/ \E p \in procs : extract_all(p)
    \/ \E p \in procs : extract_all_error(p)
    \/ \E p \in procs : extract_walk(p)
    \/ \E p \in procs : make_executable(p)
    \/ \E p \in procs : make_executable_error(p)

Spec == Init /\ [][Next]_vars

\* ------------------------------------------------- platform detection

\* ensure_installed on a host of PlatformHosts, nothing installed yet.
InitPlatform ==
    /\ procs = {1}
    /\ host \in PlatformHosts
    /\ checksums = ChecksumsWithoutLinux
    /\ version = [p \in {1} |-> <<"v", "2">>]
    /\ InitBin({1}, {NoFile})
    /\ InitPipeline({1})
    /\ InitApi({1})

SpecPlatform == InitPlatform /\ [][Next]_vars

\* ------------------------------------------------------------ build_env

\* The variables of the process environment the model tells apart: the two
\* build_env reads, one that build_env sets and two that it does not know.
Unset == "<unset>"

Restrict(f) == [n \in {m \in DOMAIN f : f[m] # Unset} |-> f[n]]

Environs ==
    {Restrict([PATH |-> pa, HOME |-> h, AWS_SECRET_ACCESS_KEY |-> s, OPENAI_API_KEY |-> k]) :
        pa \in {Unset, "/usr/bin"}, h \in {Unset, "/home/u"},
        s \in {Unset, "s1", "s2"}, k \in {Unset, "sk-host"}}

\* dict.get(key, default)
Get(d, key, default) == IF key \in DOMAIN d THEN d[key] ELSE default

\* Path.home(): $HOME, or the home directory of the password database.
PwHome == "/home/pw"
PathHome(osenv) == Get(osenv, "HOME", PwHome)

\* self.codex_home, set when the object is made
codex_home(p) == <<PathHome(environ[p]), ".pretorin", "codex">>

\* dict.update: the keys of both, the values of extra where it has the key
DictUpdateKeepsFirst(env, extra) ==
    [k \in DOMAIN env \cup DOMAIN extra |-> IF k \in DOMAIN env THEN env[k] ELSE extra[k]]
DictUpdate(env, extra) ==
    [k \in DOMAIN env \cup DOMAIN extra |-> IF k \in DOMAIN extra THEN extra[k] ELSE env[k]]

\* The dict of lines 94-100.
DefaultEnvInherited(home_dir, api_key, base_url, osenv) ==
    DictUpdate(osenv,
               [CODEX_HOME |-> home_dir, OPENAI_API_KEY |-> api_key, OPENAI_BASE_URL |-> base_url,
                PATH |-> Get(osenv, "PATH", ""), HOME |-> Get(osenv, "HOME", "")])
DefaultEnv(home_dir, api_key, base_url, osenv) ==
    [CODEX_HOME |-> home_dir,
     OPENAI_API_KEY |-> api_key,
     OPENAI_BASE_URL |-> base_url,
     PATH |-> Get(osenv, "PATH", ""),
     HOME |-> Get(osenv, "HOME", "")]

\* The keyword arguments callers pass as **extra.
Extras ==
    {EmptyMap,
     [CUSTOM_VAR |-> "custom_value"],
     [PATH |-> "/opt/bin"],
     [CODEX_HOME |-> "/elsewhere", OPENAI_API_KEY |-> "sk-extra"],
     [HOME |-> "/root", OPENAI_BASE_URL |-> "http://localhost", CUSTOM_VAR |-> "1"]}

EnvArgs ==
    {[api_key |-> k, base_url |-> "https://example.com/v1", extra |-> x] :
        k \in {"key-123", "test-key"}, x \in Extras}

\* build_env, lines 88-102
build_env(p) ==
    \E a \in EnvArgs :
        /\ args' = [args EXCEPT ![p] = a]
        /\ result' = [result EXCEPT ![p] =
                         Ok(DictUpdate(DefaultEnv(codex_home(p), a.api_key, a.base_url,
                                                  environ[p]),
                                       a.extra))]
        /\ UNCHANGED <<envVars, appVars, fsVars, environ, home, pc, ncalls, dest0, tmp_path, tarball,
                       resp, actual, member, log, net>>

\* Two processes, each with an environment of its own.
InitEnv ==
    /\ procs = {1, 2}
    /\ host = <<"Linux", "x86_64">>
    /\ checksums = ChecksumsWithoutLinux
    /\ version = [p \in {1, 2} |-> <<"v", "2">>]
    /\ binDir = FALSE
    /\ bin = [n \in BinNames |-> NoFile]
    /\ InitPipeline({1, 2})
    /\ environ \in [{1, 2} -> Environs]
    /\ home = NoHome
    /\ args = [p \in {1, 2} |-> NoArgs]
    /\ InitApp({1, 2})

NextEnv ==
    \/ \E p \in procs : build_env(p)

SpecEnv == InitEnv /\ [][NextEnv]_vars

\* ----------------------------------------------- TOML keys and strings

\* Strings are sequences of characters.  The characters that are not
\* printable are written by name.
Backslash == "<backslash>"
Quote == "<quote>"
LF == "<lf>"
CR == "<cr>"
Tab == "<tab>"
EAcute == "<e-acute>"

\* The strings over alphabet A of at most n characters.
Strs(A, n) == UNION {[1 .. k -> A] : k \in 0 .. n}

\* The character class [A-Za-z0-9_-] of line 120.
BareKeyChars ==
    {"A", "B", "C", "D", "E", "F", "G", "H", "I", "J", "K", "L", "M", "N",
     "O", "P", "Q", "R", "S", "T", "U", "V", "W", "X", "Y", "Z"} \cup
    {"a", "b", "c", "d", "e", "f", "g", "h", "i", "j", "k", "l", "m", "n",
     "o", "p", "q", "r", "s", "t", "u", "v", "w", "x", "y", "z"} \cup
    {"0", "1", "2", "3", "4", "5", "6", "7", "8", "9"} \cup
    {"_", "-"}

\* re.fullmatch(r"[A-Za-z0-9_-]+", key), lines 120-122
toml_bare_key_match(key) ==
    IF Len(key) > 0 /\ key[1] \in BareKeyChars
    THEN Ok(key)
    ELSE Err("ConfigKeyInvalid", <<"Invalid TOML key", key>>)
toml_bare_key(key) ==
    IF Len(key) > 0 /\ \A i \in 1 .. Len(key) : key[i] \in BareKeyChars
    THEN Ok(key)
    ELSE Err("ConfigKeyInvalid", <<"Invalid TOML key", key>>)

\* str.replace(old, new) for a single character old
RECURSIVE Replace(_, _, _)
Replace(value, old, new) ==
    IF value = <<>> THEN <<>>
    ELSE (IF Head(value) = old THEN new ELSE <<Head(value)>>)
         \o Replace(Tail(value), old, new)

\* _toml_escape, lines 106-113: five replacements, the backslash first
toml_escape_backslash_last(value) ==
    Replace(Replace(Replace(Replace(Replace(value,
        Quote, <<Backslash, Quote>>),
        LF, <<Backslash, "n">>),
        CR, <<Backslash, "r">>),
        Tab, <<Backslash, "t">>),
        Backslash, <<Backslash, Backslash>>)
toml_escape(value) ==
    Replace(Replace(Replace(Replace(Replace(value,
        Backslash, <<Backslash, Backslash>>),
        Quote, <<Backslash, Quote>>),
        LF, <<Backslash, "n">>),
        CR, <<Backslash, "r">>),
        Tab, <<Backslash, "t">>)

\* The strings the two functions are applied to.
EscLen == 3
KeyLen == 2
EscInputs == Strs({Backslash, Quote, LF, CR, Tab, "a", "n"}, EscLen)
KeyInputs == Strs({"a", "Z", "9", "_", "-", ".", "/", " ", Quote, LF, EAcute}, KeyLen)

call_toml_escape(p) ==
    /\ args[p].value \in EscInputs
    /\ result' = [result EXCEPT ![p] = Ok(toml_escape(args[p].value))]
    /\ log' = [log EXCEPT ![p] = <<"_toml_escape">>]
    /\ UNCHANGED <<envVars, appVars, apiVars, fsVars, pc, ncalls, dest0, tmp_path, tarball, resp,
                   actual, member, net>>

call_toml_bare_key(p) ==
    /\ args[p].value \in KeyInputs
    /\ result' = [result EXCEPT ![p] = toml_bare_key(args[p].value)]
    /\ log' = [log EXCEPT ![p] = <<"_toml_bare_key">>]
    /\ UNCHANGED <<envVars, appVars, apiVars, fsVars, pc, ncalls, dest0, tmp_path, tarball, resp,
                   actual, member, net>>

\* One string, to which the static methods are applied.
InitText ==
    /\ procs = {1}
    /\ host = <<"Linux", "x86_64">>
    /\ checksums = ChecksumsWithoutLinux
    /\ version = [p \in {1} |-> <<"v", "2">>]
    /\ binDir = FALSE
    /\ bin = [n \in BinNames |-> NoFile]
    /\ InitPipeline({1})
    /\ environ = [p \in {1} |-> EmptyMap]
    /\ home = NoHome
    /\ \E v \in EscInputs \cup KeyInputs : args = [p \in {1} |-> [value |-> v]]
    /\ InitApp({1})

NextText ==
    \/ \E p \in procs : call_toml_escape(p)
    \/ \E p \in procs : call_toml_bare_key(p)

SpecText == InitText /\ [][NextText]_vars

\* ---------------------------------------------------------- write_config

\* The string literals of lines 142-155 and 162-169.
Lit ==
    [ pretorin |-> <<"p", "r", "e", "t", "o", "r", "i", "n">>,
      model_provider |-> <<"m", "o", "d", "e", "l", "_", "p", "r", "o",
        "v", "i", "d", "e", "r", " ", "=", " ", Quote>>,
      web_search |-> <<"w", "e", "b", "_", "s", "e", "a", "r", "c", "h",
        " ", "=", " ", Quote, "d", "i", "s", "a", "b", "l", "e", "d",
        Quote>>,
      model_providers |-> <<"[", "m", "o", "d", "e", "l", "_", "p", "r",
        "o", "v", "i", "d", "e", "r", "s", ".">>,
      name |-> <<"n", "a", "m", "e", " ", "=", " ", Quote>>,
      base_url |-> <<"b", "a", "s", "e", "_", "u", "r", "l", " ", "=",
        " ", Quote>>,
      wire_api |-> <<"w", "i", "r", "e", "_", "a", "p", "i", " ", "=",
        " ", Quote>>,
      env_key |-> <<"e", "n", "v", "_", "k", "e", "y", " ", "=", " ",
        Quote>>,
      mcp_servers |-> <<"[", "m", "c", "p", "_", "s", "e", "r", "v", "e",
        "r", "s", ".">>,
      mcp_pretorin |-> <<"[", "m", "c", "p", "_", "s", "e", "r", "v", "e",
        "r", "s", ".", "p", "r", "e", "t", "o", "r", "i", "n", "]">>,
      command_pretorin |-> <<"c", "o", "m", "m", "a", "n", "d", " ", "=",
        " ", Quote, "p", "r", "e", "t", "o", "r", "i", "n", Quote>>,
      args_mcp_serve |-> <<"a", "r", "g", "s", " ", "=", " ", "[", Quote,
        "m", "c", "p", "-", "s", "e", "r", "v", "e", Quote, "]">>,
      command |-> <<"c", "o", "m", "m", "a", "n", "d", " ", "=", " ",
        Quote>>,
      args |-> <<"a", "r", "g", "s", " ", "=", " ", "[">>,
      url |-> <<"u", "r", "l", " ", "=", " ", Quote>> ]

\* The arguments and the side-file values of the tests, and some more.
Val ==
    [ example_url |-> <<"h", "t", "t", "p", "s", ":", "/", "/", "e", "x",
        "a", "m", "p", "l", "e", ".", "c", "o", "m", "/", "v", "1">>,
      responses |-> <<"r", "e", "s", "p", "o", "n", "s", "e", "s">>,
      env_key |-> <<"O", "P", "E", "N", "A", "I", "_", "A", "P", "I", "_",
        "K", "E", "Y">>,
      my_provider |-> <<"m", "y", "-", "p", "r", "o", "v", "i", "d", "e",
        "r", "_", "1">>,
      dotted |-> <<"m", "y", ".", "p", "r", "o", "v", "i", "d", "e", "r">>,
      slashed |-> <<"m", "y", "/", "p", "r", "o", "v", "i", "d", "e",
        "r">>,
      spaced |-> <<"m", "y", " ", "p", "r", "o", "v", "i", "d", "e", "r">>,
      section_url |-> <<"u", Quote, LF, "[", "m", "c", "p", "_", "s", "e",
        "r", "v", "e", "r", "s", ".", "p", "r", "e", "t", "o", "r", "i",
        "n", "]">>,
      github |-> <<"g", "i", "t", "h", "u", "b">>,
      uvx |-> <<"u", "v", "x">>,
      mcp_server_github |-> <<"m", "c", "p", "-", "s", "e", "r", "v", "e",
        "r", "-", "g", "i", "t", "h", "u", "b">>,
      web |-> <<"w", "e", "b">>,
      web_url |-> <<"h", "t", "t", "p", "s", ":", "/", "/", "m", "c", "p",
        ".", "e", "x", "a", "m", "p", "l", "e", ".", "c", "o", "m", "/",
        "s", "s", "e">>,
      dotted_server |-> <<"m", "y", ".", "s", "e", "r", "v", "e", "r">>,
      other_command |-> <<"o", "t", "h", "e", "r", LF, "[", "m", "c", "p",
        "_", "s", "e", "r", "v", "e", "r", "s", ".", "p", "r", "e", "t",
        "o", "r", "i", "n", "]">>,
      old_config |-> <<"m", "o", "d", "e", "l", "_", "p", "r", "o", "v",
        "i", "d", "e", "r", " ", "=", " ", Quote, "o", "l", "d", Quote,
        LF>>,
      user_config |-> <<"m", "o", "d", "e", "l", " ", "=", " ", Quote,
        "u", "s", "e", "r", Quote, LF>> ]

\* The directories and files below Path.home() the methods name.
HomePath ==
    [ pretorin |-> <<".pretorin">>,
      codex_home |-> <<".pretorin", "codex">>,
      user_codex |-> <<".codex">>,
      config |-> <<".pretorin", "codex", "config.toml">>,
      mcp |-> <<".pretorin", "mcp.json">>,
      user_config |-> <<".codex", "config.toml">> ]
HomeFiles == {HomePath.config, HomePath.mcp, HomePath.user_config}

\* A path without its first part, the home directory.
BelowHome(path) == Tail(path)

\* self.codex_home / "config.toml", line 137
config_path_of_user(p) == <<PathHome(environ[p])>> \o HomePath.user_config
config_path(p) == codex_home(p) \o <<"config.toml">>

\* Path.home() / ".pretorin" / "mcp.json", line 279
mcp_path(p) == <<PathHome(environ[p]), ".pretorin", "mcp.json">>

\* What mcp.json may hold: text that is not JSON, a JSON array, or an object
\* whose "servers" are name and configuration pairs in the order of the file.
InvalidJson == <<"<not json>">>
JsonArray == <<"<json array>">>
Server(name, command, arguments, url) ==
    [name |-> name, config |-> [command |-> command, args |-> arguments, url |-> url]]
JsonObject(servers) == <<"<json object>", servers>>

\* {"servers": [...]}: the object json.dump writes for MCPConfigManager, its
\* "servers" a list of entries that hold their name (mcp_config.py, line
\* 196); the transport of an entry is left out, no reader here uses it.
JsonServerList(entries) == <<"<json object, servers a list>", entries>>

\* A key the configuration of a server does not have.
Missing == <<>>

Entry ==
    [ github |-> Server(Val.github, Val.uvx, <<Val.mcp_server_github>>, Missing),
      pretorin |-> Server(Lit.pretorin, Val.other_command, Missing, Missing),
      web |-> Server(Val.web, Missing, Missing, Val.web_url),
      dotted |-> Server(Val.dotted_server, Val.uvx, Missing, Missing),
      section |-> Server(Val.uvx, Val.other_command, <<Val.section_url, Val.uvx>>, Missing) ]

McpFiles ==
    {NoText, InvalidJson, JsonArray,
     JsonObject(<<>>),
     JsonObject(<<Entry.github>>),
     JsonObject(<<Entry.web, Entry.pretorin, Entry.github>>),
     JsonObject(<<Entry.github, Entry.dotted>>),
     JsonObject(<<Entry.section>>)}

\* _load_user_mcp_servers, lines 277-293: the servers but "pretorin"; none
\* when the file is absent or is not JSON; data.get of an array raises
\* AttributeError, which nothing catches.
\* An object whose "servers" is a list holds no .items: AttributeError too.
UserServersUnfiltered(mcp) ==
    IF mcp \in {NoText, InvalidJson} THEN Ok(<<>>)
    ELSE IF mcp = JsonArray THEN Err("AttributeError", <<"get">>)
    ELSE IF mcp[1] # "<json object>" THEN Err("AttributeError", <<"items">>)
    ELSE Ok(mcp[2])
UserServers(mcp) ==
    IF mcp \in {NoText, InvalidJson} THEN Ok(<<>>)
    ELSE IF mcp = JsonArray THEN Err("AttributeError", <<"get">>)
    ELSE IF mcp[1] # "<json object>" THEN Err("AttributeError", <<"items">>)
    ELSE Ok(SelectSeq(mcp[2], LAMBDA e : e.name # Lit.pretorin))

RECURSIVE Flatten(_)
Flatten(ss) == IF ss = <<>> THEN <<>> ELSE Head(ss) \o Flatten(Tail(ss))

\* ", ".join(f'"{esc(str(a))}"' for a in server["args"]), line 166
RECURSIVE ArgsStr(_)
ArgsStr(arguments) ==
    IF arguments = <<>> THEN <<>>
    ELSE <<Quote>> \o toml_escape(Head(arguments)) \o <<Quote>>
         \o (IF Len(arguments) > 1 THEN <<",", " ">> ELSE <<>>)
         \o ArgsStr(Tail(arguments))

\* server.get(key): a value that is there and is not empty
Truthy(v) == v # Missing

\* Lines 142-155
ProviderLines(safe_provider, base_url, wire_api, env_key) ==
    << Lit.model_provider \o toml_escape(safe_provider) \o <<Quote>>,
       Lit.web_search,
       <<>>,
       Lit.model_providers \o safe_provider \o <<"]">>,
       Lit.name \o toml_escape(safe_provider) \o <<Quote>>,
       Lit.base_url \o toml_escape(base_url) \o <<Quote>>,
       Lit.wire_api \o toml_escape(wire_api) \o <<Quote>>,
       Lit.env_key \o toml_escape(env_key) \o <<Quote>>,
       <<>>,
       Lit.mcp_pretorin,
       Lit.command_pretorin,
       Lit.args_mcp_serve >>

\* Lines 161-169, for a server whose name is a bare key
ServerLines(e) ==
    << <<>>, Lit.mcp_servers \o e.name \o <<"]">> >>
    \o (IF Truthy(e.config.command)
        THEN << Lit.command \o toml_escape(e.config.command) \o <<Quote>> >> ELSE <<>>)
    \o (IF Truthy(e.config.args)
        THEN << Lit.args \o ArgsStr(e.config.args) \o <<"]">> >> ELSE <<>>)
    \o (IF Truthy(e.config.url)
        THEN << Lit.url \o toml_escape(e.config.url) \o <<Quote>> >> ELSE <<>>)

\* "\n".join(lines) + "\n", line 171
JoinLines(lines) == Flatten([i \in 1 .. Len(lines) |-> lines[i] \o <<LF>>])

\* The first server of the list whose name is not a bare key, 0 if none.
FirstInvalidUnchecked(servers) == 0 * Len(servers)
FirstInvalid(servers) ==
    IF \E i \in 1 .. Len(servers) : toml_bare_key(servers[i].name).st = "error"
    THEN CHOOSE i \in 1 .. Len(servers) :
            /\ toml_bare_key(servers[i].name).st = "error"
            /\ \A j \in 1 .. (i - 1) : toml_bare_key(servers[j].name).st = "ok"
    ELSE 0

\* Path.mkdir(parents=True, exist_ok=True) of the codex home, line 136
Mkdir(dirs) == dirs \cup {HomePath.pretorin, HomePath.codex_home}

WriteConfigArgs ==
    {[model |-> <<"m">>, provider_name |-> n, base_url |-> u,
      env_key |-> Val.env_key, wire_api |-> Val.responses] :
        n \in {Lit.pretorin, Val.my_provider, Val.dotted, Val.slashed, Val.spaced, <<>>},
        u \in {Val.example_url, Val.section_url}}

\* write_config, lines 124-172
write_config(p) ==
    \E a \in WriteConfigArgs :
        LET safe_provider == toml_bare_key(a.provider_name)
            extra_mcp == UserServers(home.files[BelowHome(mcp_path(p))])
            bad == FirstInvalid(extra_mcp.info[1])
            lines == ProviderLines(a.provider_name, a.base_url, a.wire_api, a.env_key)
                     \o Flatten([i \in 1 .. Len(extra_mcp.info[1]) |->
                                    ServerLines(extra_mcp.info[1][i])])
        IN  /\ args' = [args EXCEPT ![p] = a]
            /\ IF safe_provider.st = "error"
               THEN /\ home' = [home EXCEPT !.dirs = Mkdir(@)]
                    /\ result' = [result EXCEPT ![p] = safe_provider]
                    /\ log' = [log EXCEPT ![p] = <<"write_config", "mkdir">>]
               ELSE IF extra_mcp.st = "error"
               THEN /\ home' = [home EXCEPT !.dirs = Mkdir(@)]
                    /\ result' = [result EXCEPT ![p] = extra_mcp]
                    /\ log' = [log EXCEPT ![p] = <<"write_config", "mkdir", "read mcp.json">>]
               ELSE IF bad # 0
               THEN /\ home' = [home EXCEPT !.dirs = Mkdir(@)]
                    /\ result' = [result EXCEPT ![p] =
                                     toml_bare_key(extra_mcp.info[1][bad].name)]
                    /\ log' = [log EXCEPT ![p] = <<"write_config", "mkdir", "read mcp.json">>]
               ELSE /\ home' = [home EXCEPT
                                   !.dirs = Mkdir(@),
                                   !.files[BelowHome(config_path(p))] = JoinLines(lines)]
                    /\ result' = [result EXCEPT ![p] = Ok(config_path(p))]
                    /\ log' = [log EXCEPT ![p] = <<"write_config", "mkdir", "read mcp.json",
                                                   "write config.toml">>]
            /\ UNCHANGED <<envVars, appVars, fsVars, environ, pc, ncalls, dest0, tmp_path, tarball,
                           resp, actual, member, net>>

\* The home directory before the first call: ~/.pretorin absent; or present
\* with some mcp.json; or holding a codex home, with or without a config
\* written earlier; and a user who has or has not a Codex configuration.
InitHome ==
    \E user \in {NoText, Val.user_config} :
        LET userDirs == IF user = NoText THEN {} ELSE {HomePath.user_codex}
            Files(config, mcp) ==
                [f \in HomeFiles |->
                    IF f = HomePath.config THEN config ELSE IF f = HomePath.mcp THEN mcp ELSE user]
        IN  \/ home = [dirs |-> userDirs, files |-> Files(NoText, NoText)]
            \/ \E mcp \in McpFiles :
                  home = [dirs |-> userDirs \cup {HomePath.pretorin}, files |-> Files(NoText, mcp)]
            \/ \E mcp \in McpFiles, config \in {NoText, Val.old_config} :
                  home = [dirs |-> userDirs \cup {HomePath.pretorin, HomePath.codex_home},
                          files |-> Files(config, mcp)]

InitConfig ==
    /\ procs = {1}
    /\ host = <<"Linux", "x86_64">>
    /\ checksums = ChecksumsWithoutLinux
    /\ version = [p \in {1} |-> <<"v", "2">>]
    /\ binDir = FALSE
    /\ bin = [n \in BinNames |-> NoFile]
    /\ InitPipeline({1})
    /\ environ = [p \in {1} |-> [HOME |-> "/home/u"]]
    /\ InitHome
    /\ args = [p \in {1} |-> NoArgs]
    /\ InitApp({1})

NextConfig ==
    \/ \E p \in procs : write_config(p)

SpecConfig == InitConfig /\ [][NextConfig]_vars

\* -------------------------------------------------- cleanup_old_versions

\* entry.name.startswith("codex-") and entry.name != current_name, line 181
IsOldVersionOrCurrent(name, current_name) == StartsWith(name, N_codex_dash)
IsOldVersion(name, current_name) ==
    StartsWith(name, N_codex_dash) /\ name # current_name

\* The orders in which iterdir may yield the entries S.
Orders(S) ==
    {f \in [1 .. Cardinality(S) -> S] :
        \A i, j \in 1 .. Cardinality(S) : i # j => f[i] # f[j]}

\* The entries of the bin directory the loop unlinks.
OldVersions(p) ==
    {n \in BinNames : bin[n].exists /\ IsOldVersion(n, binary_path(p))}

\* cleanup_old_versions, lines 174-185, when every unlink succeeds
cleanup_old_versions(p) ==
    /\ pc[p] = "idle"
    /\ log' = [log EXCEPT ![p] = <<"cleanup_old_versions">>]
    /\ IF ~binDir
       THEN /\ result' = [result EXCEPT ![p] = Ok(<<>>)]
            /\ bin' = bin
       ELSE \E removed \in Orders(OldVersions(p)) :
               /\ result' = [result EXCEPT ![p] = Ok(removed)]
               /\ bin' = [n \in BinNames |-> IF n \in OldVersions(p) THEN NoFile ELSE bin[n]]
    /\ UNCHANGED <<envVars, appVars, apiVars, binDir, tmp, xdir, pc, ncalls, dest0, tmp_path, tarball,
                   resp, actual, member, net>>

\* entry.unlink() raises OSError at some entry: the entries before it are
\* gone, the others stay, and the method raises.
cleanup_unlink_error(p) ==
    /\ pc[p] = "idle"
    /\ binDir
    /\ \E order \in Orders(OldVersions(p)) :
          \E k \in 1 .. Len(order) :
             /\ bin' = [n \in BinNames |->
                           IF \E i \in 1 .. (k - 1) : order[i] = n THEN NoFile ELSE bin[n]]
             /\ result' = [result EXCEPT ![p] = Err("OSError", <<"unlink", order[k]>>)]
    /\ log' = [log EXCEPT ![p] = <<"cleanup_old_versions">>]
    /\ UNCHANGED <<envVars, appVars, apiVars, binDir, tmp, xdir, pc, ncalls, dest0, tmp_path, tarball,
                   resp, actual, member, net>>

\* A bin directory that is absent, or holds any of the entries, the pinned
\* binary in any of its modes.
InitCleanup ==
    /\ procs = {1}
    /\ host = <<"Linux", "x86_64">>
    /\ checksums = ChecksumsWithoutLinux
    /\ \E v \in Versions : version = [p \in {1} |-> v]
    /\ \/ /\ binDir = FALSE
          /\ bin = [n \in BinNames |-> NoFile]
       \/ /\ binDir = TRUE
          /\ \E present \in SUBSET (BinNames \ {binary_name(version[1])}),
                d \in InitialDest \cup {File("B1", TRUE, ModeAllExec)} :
                bin = [n \in BinNames |->
                          IF n = binary_name(version[1]) THEN d
                          ELSE IF n \in present THEN File("old", TRUE, ModeAllExec)
                          ELSE NoFile]
    /\ InitPipeline({1})
    /\ InitApi({1})

NextCleanup ==
    \/ \E p \in procs : cleanup_old_versions(p)
    \/ \E p \in procs : cleanup_unlink_error(p)

SpecCleanup == InitCleanup /\ [][NextCleanup]_vars

\* ------------------------------------- calls over the life of an install

\* Between calls, someone other than the runtime deletes the installed
\* binary (rm) or takes its executable bits away (chmod a-x).
out_of_band ==
    /\ \A q \in procs : pc[q] = "idle"
    /\ \E p \in procs :
          /\ is_installed(p)
          /\ \/ /\ bin' = [bin EXCEPT ![binary_path(p)] = NoFile]
                /\ outside' = outside \cup {"unlink"}
             \/ /\ bin' = [bin EXCEPT ![binary_path(p)].mode = @ \ AnyExecMask]
                /\ outside' = outside \cup {"chmod"}
    /\ UNCHANGED <<procs, host, checksums, version, appVars, apiVars, binDir, tmp, xdir, pc,
                   ncalls, dest0, tmp_path, tarball, resp, actual, member, result, log, net>>

\* One process, no file at the pinned path: the bin directory absent, or
\* holding other versions' binaries and an unrelated file.
InitLifecycle ==
    /\ procs = {1}
    /\ host \in {<<"Linux", "x86_64">>, <<"Darwin", "arm64">>}
    /\ checksums = ChecksumsWithoutLinux
    /\ version = [p \in {1} |-> <<"v", "1">>]
    /\ InitBin({1}, {NoFile})
    /\ InitPipeline({1})
    /\ InitApi({1})

NextLifecycle ==
    \/ \E p \in procs : ensure_installed(p)
    \/ \E p \in procs : download_begin(p)
    \/ \E p \in procs : download_request(p)
    \/ \E p \in procs : download_chunk(p)
    \/ \E p \in procs : download_stream_error(p)
    \/ \E p \in procs : download_write_error(p)
    \/ \E p \in procs : download_end(p)
    \/ \E p \in procs : verify_begin(p)
    \/ \E p \in procs : verify_hash(p)
    \/ \E p \in procs : verify_read_error(p)
    \/ \E p \in procs : verify_compare(p)
    \/ \E p \in procs : extract_open(p)
    \/ \E p \in procs : extract_copy(p)
    \/ \E p \in procs : extract_copy_error(p)
    \/ \E p \in procs : extract_all(p)
    \/ \E p \in procs : extract_all_error(p)
    \/ \E p \in procs : extract_walk(p)
    \/ \E p \in procs : make_executable(p)
    \/ \E p \in procs : make_executable_error(p)
    \/ \E p \in procs : cleanup_old_versions(p)
    \/ \E p \in procs : cleanup_unlink_error(p)
    \/ out_of_band

SpecLifecycle == InitLifecycle /\ [][NextLifecycle]_vars

\* ------------------------------------------------------------ CodexAgent

\* bool(s) of a string or None
NonEmpty(s) == s \notin {None, ""}

\* Config.openai_api_key: the variable OPENAI_API_KEY, else the stored value
ConfigOpenaiApiKey(osenv, stored) ==
    IF NonEmpty(Get(osenv, "OPENAI_API_KEY", None))
    THEN Get(osenv, "OPENAI_API_KEY", None)
    ELSE stored

\* _resolve_api_key, lines 48-62
resolve_api_key_openai_first(osenv, stored) ==
    IF NonEmpty(Get(osenv, "OPENAI_API_KEY", None))
    THEN Ok(Get(osenv, "OPENAI_API_KEY", None))
    ELSE IF NonEmpty(Get(osenv, "PRETORIN_LLM_API_KEY", None))
    THEN Ok(Get(osenv, "PRETORIN_LLM_API_KEY", None))
    ELSE IF NonEmpty(ConfigOpenaiApiKey(osenv, stored))
    THEN Ok(ConfigOpenaiApiKey(osenv, stored))
    ELSE Err("RuntimeError", <<"No API key found">>)
resolve_api_key(osenv, stored) ==
    IF NonEmpty(Get(osenv, "PRETORIN_LLM_API_KEY", None))
    THEN Ok(Get(osenv, "PRETORIN_LLM_API_KEY", None))
    ELSE IF NonEmpty(Get(osenv, "OPENAI_API_KEY", None))
    THEN Ok(Get(osenv, "OPENAI_API_KEY", None))
    ELSE IF NonEmpty(ConfigOpenaiApiKey(osenv, stored))
    THEN Ok(ConfigOpenaiApiKey(osenv, stored))
    ELSE Err("RuntimeError", <<"No API key found">>)

\* The two variables, each of them unset, empty or holding a key.
AgentEnvirons ==
    {Restrict([HOME |-> "/home/u", PRETORIN_LLM_API_KEY |-> a, OPENAI_API_KEY |-> b]) :
        a \in {Unset, "", "sk-pretorin-test"}, b \in {Unset, "", "sk-openai-test"}}

\* CodexAgent.__init__, lines 33-46, called with the arguments base_url and
\* api_key where the stored configuration holds openai_api_key = stored; an
\* empty base_url stands for None.
codex_agent_init(p, base_url, api_key, stored) ==
    /\ agent[p].pc = "none"
    /\ LET key == IF NonEmpty(api_key) THEN Ok(api_key)
                  ELSE resolve_api_key(environ[p], stored)
       IN  IF key.st = "error"
           THEN agent' = [agent EXCEPT ![p] =
                             [NoAgent EXCEPT !.pc = "raised", !.arg = api_key,
                                             !.stored = stored, !.error = key.info[1]]]
           ELSE agent' = [agent EXCEPT ![p] =
                             [NoAgent EXCEPT !.pc = "ready", !.arg = api_key, !.stored = stored,
                                             !.model = <<"m">>,
                                             !.base_url = IF base_url # <<>> THEN base_url
                                                          ELSE Val.example_url,
                                             !.api_key = key.info[1]]]
    /\ UNCHANGED <<envVars, apiVars, fsVars, cli, mgr, pc, ncalls, dest0, tmp_path, tarball, resp,
                   actual, member, result, log, net>>

\* A process in each of the environments, no agent made yet.
InitAgentKeys ==
    /\ procs = {1}
    /\ host = <<"Linux", "x86_64">>
    /\ checksums = ChecksumsWithoutLinux
    /\ version = [p \in {1} |-> <<"v", "2">>]
    /\ binDir = FALSE
    /\ bin = [n \in BinNames |-> NoFile]
    /\ InitPipeline({1})
    /\ environ \in [{1} -> AgentEnvirons]
    /\ home = NoHome
    /\ args = [p \in {1} |-> NoArgs]
    /\ InitApp({1})

NextAgentKeys ==
    \/ \E p \in procs, u \in {<<>>, Val.section_url}, k \in {None, "", "sk-explicit"},
             c \in {None, "", "sk-stored"} :
          codex_agent_init(p, u, k, c)

SpecAgentKeys == InitAgentKeys /\ [][NextAgentKeys]_vars

\* -------------------------------------------------------- CodexAgent.run

\* run is called on the agent of p.
run_begin(p) ==
    /\ agent[p].pc = "ready"
    /\ pc[p] = "idle"
    /\ ncalls[p] < MaxCalls
    /\ agent' = [agent EXCEPT ![p] =
                    [@ EXCEPT !.pc = "ensure_installed", !.n0 = ncalls[p], !.error = "",
                              !.binary_path = <<>>, !.env = <<>>, !.spawned = <<>>]]
    /\ UNCHANGED <<envVars, apiVars, fsVars, cli, mgr, pc, ncalls, dest0, tmp_path, tarball, resp,
                   actual, member, result, log, net>>

\* Line 80: self.runtime.ensure_installed() is entered.
run_ensure_installed(p) ==
    /\ agent[p].pc = "ensure_installed"
    /\ ncalls[p] = agent[p].n0
    /\ ensure_installed(p)

\* Lines 80-84: ensure_installed has returned, and build_env is called with
\* the key and the URL of the agent; or it has raised, and so does run.
run_build_env_unchecked(p) ==
    /\ agent[p].pc = "ensure_installed"
    /\ ncalls[p] = agent[p].n0 + 1
    /\ pc[p] = "idle"
    /\ agent' = [agent EXCEPT ![p] =
                    [@ EXCEPT !.pc = "write_config",
                              !.binary_path = binary_path(p),
                              !.env = DictUpdate(DefaultEnv(codex_home(p), agent[p].api_key,
                                                            agent[p].base_url, environ[p]),
                                                 EmptyMap)]]
    /\ UNCHANGED <<envVars, apiVars, fsVars, cli, mgr, pc, ncalls, dest0, tmp_path, tarball, resp,
                   actual, member, result, log, net>>
run_build_env(p) ==
    /\ agent[p].pc = "ensure_installed"
    /\ ncalls[p] = agent[p].n0 + 1
    /\ pc[p] = "idle"
    /\ IF result[p].st = "ok"
       THEN agent' = [agent EXCEPT ![p] =
                         [@ EXCEPT !.pc = "write_config",
                                   !.binary_path = result[p].info[1],
                                   !.env = DictUpdate(DefaultEnv(codex_home(p), agent[p].api_key,
                                                                 agent[p].base_url, environ[p]),
                                                      EmptyMap)]]
       ELSE agent' = [agent EXCEPT ![p] = [@ EXCEPT !.pc = "ready", !.error = result[p].kind]]
    /\ UNCHANGED <<envVars, apiVars, fsVars, cli, mgr, pc, ncalls, dest0, tmp_path, tarball, resp,
                   actual, member, result, log, net>>

\* Lines 87-92: write_config with the provider name "pretorin".
run_write_config(p) ==
    /\ agent[p].pc = "write_config"
    /\ IF log[p] = <<>> THEN TRUE ELSE log[p][1] # "write_config"
    /\ write_config(p)
    /\ args'[p] = [model |-> agent[p].model, provider_name |-> Lit.pretorin,
                   base_url |-> agent[p].base_url, env_key |-> Val.env_key,
                   wire_api |-> Val.responses]

\* Lines 94-105: write_config has raised, and so does run; or the import of
\* the SDK fails; or Codex is made with the binary path and the environment.
run_spawn(p) ==
    /\ agent[p].pc = "write_config"
    /\ log[p] # <<>>
    /\ log[p][1] = "write_config"
    /\ IF result[p].st = "error"
       THEN agent' = [agent EXCEPT ![p] = [@ EXCEPT !.pc = "ready", !.error = result[p].kind]]
       ELSE \/ agent' = [agent EXCEPT ![p] = [@ EXCEPT !.pc = "ready", !.error = "RuntimeError"]]
            \/ agent' = [agent EXCEPT ![p] =
                            [@ EXCEPT !.pc = "ready",
                                      !.spawned = <<agent[p].binary_path, agent[p].env>>]]
    /\ UNCHANGED <<envVars, apiVars, fsVars, cli, mgr, pc, ncalls, dest0, tmp_path, tarball, resp,
                   actual, member, result, log, net>>

\* One process with PRETORIN_LLM_API_KEY set and nothing installed; no
\* mcp.json, one that lists a server beside a config written earlier, or one
\* that is a JSON array.
InitAgent ==
    /\ procs = {1}
    /\ host \in {<<"Linux", "x86_64">>, <<"Darwin", "arm64">>}
    /\ checksums = ChecksumsWithoutLinux
    /\ version = [p \in {1} |-> <<"v", "1">>]
    /\ binDir = FALSE
    /\ bin = [n \in BinNames |-> NoFile]
    /\ InitPipeline({1})
    /\ environ = [p \in {1} |-> [HOME |-> "/home/u", PRETORIN_LLM_API_KEY |-> "sk-pretorin-test"]]
    /\ \E mcp \in {NoText, JsonObject(<<Entry.github>>), JsonArray} :
          home = [dirs |-> IF mcp = NoText THEN {} ELSE {HomePath.pretorin, HomePath.codex_home},
                  files |-> [f \in HomeFiles |->
                                IF f = HomePath.mcp THEN mcp
                                ELSE IF f = HomePath.config /\ mcp # NoText THEN Val.old_config
                                ELSE NoText]]
    /\ args = [p \in {1} |-> NoArgs]
    /\ InitApp({1})

NextAgent ==
    \/ \E p \in procs : codex_agent_init(p, <<>>, None, None)
    \/ \E p \in procs : run_begin(p)
    \/ \E p \in procs : run_ensure_installed(p)
    \/ \E p \in procs : download_begin(p)
    \/ \E p \in procs : download_request(p)
    \/ \E p \in procs : download_chunk(p)
    \/ \E p \in procs : download_stream_error(p)
    \/ \E p \in procs : download_write_error(p)
    \/ \E p \in procs : download_end(p)
    \/ \E p \in procs : verify_begin(p)
    \/ \E p \in procs : verify_hash(p)
    \/ \E p \in procs : verify_read_error(p)
    \/ \E p \in procs : verify_compare(p)
    \/ \E p \in procs : extract_open(p)
    \/ \E p \in procs : extract_copy(p)
    \/ \E p \in procs : extract_copy_error(p)
    \/ \E p \in procs : extract_all(p)
    \/ \E p \in procs : extract_all_error(p)
    \/ \E p \in procs : extract_walk(p)
    \/ \E p \in procs : make_executable(p)
    \/ \E p \in procs : make_executable_error(p)
    \/ \E p \in procs : run_build_env(p)
    \/ \E p \in procs : run_write_config(p)
    \/ \E p \in procs : run_spawn(p)

SpecAgent == InitAgent /\ [][NextAgent]_vars

\* ------------------------------------------- the command "agent install"

\* _PLATFORM_TO_TARGET, lines 26-30
PLATFORM_TO_TARGET ==
    ("darwin-arm64" :> "aarch64-apple-darwin")
    @@ ("darwin-x64" :> "x86_64-apple-darwin")
    @@ ("linux-x64" :> "x86_64-unknown-linux-gnu")

\* CODEX_CHECKSUMS, lines 34-38: three digests, each of one published
\* archive.
CODEX_CHECKSUMS_darwin_only ==
    ("darwin-arm64" :> Sha256Hex(2, "all"))
    @@ ("darwin-x64" :> Sha256Hex(6, "all"))
    @@ ("linux-x64" :> NoDigest)
CODEX_CHECKSUMS ==
    ("darwin-arm64" :> Sha256Hex(2, "all"))
    @@ ("darwin-x64" :> Sha256Hex(6, "all"))
    @@ ("linux-x64" :> Sha256Hex(1, "all"))

\* The exceptions of ensure_installed that are RuntimeError: those the
\* runtime raises itself.  OSError and tarfile.ReadError are not.
IsRuntimeError(kind) ==
    kind \in {"UnsupportedPlatform", "DownloadFailure", "ChecksumMismatch", "ExtractionFailure"}

\* Lines 266-274: the command starts, in JSON mode or not.
agent_install_begin(p, json) ==
    /\ cli[p].pc = "idle"
    /\ pc[p] = "idle"
    /\ ncalls[p] < MaxCalls
    /\ cli' = [cli EXCEPT ![p] =
                  [pc |-> "ensure_installed", json |-> json, n0 |-> ncalls[p], exit |-> -1,
                   out |-> IF json THEN <<>> ELSE << <<"Installing Codex", version[p]>> >>]]
    /\ UNCHANGED <<envVars, apiVars, fsVars, agent, mgr, pc, ncalls, dest0, tmp_path, tarball,
                   resp, actual, member, result, log, net>>

\* Line 277: runtime.ensure_installed() is entered.
agent_install_call(p) ==
    /\ cli[p].pc = "ensure_installed"
    /\ ncalls[p] = cli[p].n0
    /\ ensure_installed(p)

\* Lines 277-287: the path is reported; or a RuntimeError is caught, reported
\* and turned into typer.Exit(1); or another exception leaves the command,
\* and the interpreter prints its traceback and exits with 1.
agent_install_end(p) ==
    /\ cli[p].pc = "ensure_installed"
    /\ ncalls[p] = cli[p].n0 + 1
    /\ pc[p] = "idle"
    /\ cli' = [cli EXCEPT ![p] =
                  IF result[p].st = "ok"
                  THEN [@ EXCEPT !.pc = "idle", !.exit = 0,
                                 !.out = Append(@, IF cli[p].json
                                                   THEN <<"json.installed", "true",
                                                          result[p].info[1]>>
                                                   ELSE <<"Codex binary installed at",
                                                          result[p].info[1]>>)]
                  ELSE IF IsRuntimeError(result[p].kind)
                  THEN [@ EXCEPT !.pc = "idle", !.exit = 1,
                                 !.out = Append(@, IF cli[p].json
                                                   THEN <<"json.installed", "false",
                                                          result[p].kind>>
                                                   ELSE <<"Installation failed",
                                                          result[p].kind>>)]
                  ELSE [@ EXCEPT !.pc = "idle", !.exit = 1,
                                 !.out = Append(@, <<"Traceback", result[p].kind>>)]]
    /\ UNCHANGED <<envVars, apiVars, fsVars, agent, mgr, pc, ncalls, dest0, tmp_path, tarball,
                   resp, actual, member, result, log, net>>

\* The pinned version with the tables as shipped, on any host, nothing
\* installed.
InitCli ==
    /\ procs = {1}
    /\ host \in PlatformHosts
    /\ checksums = CODEX_CHECKSUMS
    /\ version = [p \in {1} |-> <<"v", "1">>]
    /\ binDir = FALSE
    /\ bin = [n \in BinNames |-> NoFile]
    /\ InitPipeline({1})
    /\ InitApi({1})

NextCli ==
    \/ \E p \in procs, json \in BOOLEAN : agent_install_begin(p, json)
    \/ \E p \in procs : agent_install_call(p)
    \/ \E p \in procs : download_begin(p)
    \/ \E p \in procs : download_request(p)
    \/ \E p \in procs : download_chunk(p)
    \/ \E p \in procs : download_stream_error(p)
    \/ \E p \in procs : download_write_error(p)
    \/ \E p \in procs : download_end(p)
    \/ \E p \in procs : verify_begin(p)
    \/ \E p \in procs : verify_hash(p)
    \/ \E p \in procs : verify_read_error(p)
    \/ \E p \in procs : verify_compare(p)
    \/ \E p \in procs : extract_open(p)
    \/ \E p \in procs : extract_copy(p)
    \/ \E p \in procs : extract_copy_error(p)
    \/ \E p \in procs : extract_all(p)
    \/ \E p \in procs : extract_all_error(p)
    \/ \E p \in procs : extract_walk(p)
    \/ \E p \in procs : make_executable(p)
    \/ \E p \in procs : make_executable_error(p)
    \/ \E p \in procs : agent_install_end(p)

SpecCli == InitCli /\ [][NextCli]_vars

\* ------------------------------------------- two processes, one version

\* Two processes with a runtime of the pinned version each, on one host with
\* one home directory; nothing installed.
InitRace ==
    /\ procs = {1, 2}
    /\ host \in {<<"Linux", "x86_64">>, <<"Darwin", "x86_64">>}
    /\ checksums = CODEX_CHECKSUMS
    /\ version = [p \in {1, 2} |-> <<"v", "1">>]
    /\ binDir = FALSE
    /\ bin = [n \in BinNames |-> NoFile]
    /\ InitPipeline({1, 2})
    /\ InitApi({1, 2})

\* A call by one of the two processes, the calls of both counted together.
race_ensure_installed(p) ==
    /\ ncalls[1] + ncalls[2] < MaxCalls
    /\ ensure_installed(p)

NextRace ==
    \/ \E p \in procs : race_ensure_installed(p)
    \/ \E p \in procs : download_begin(p)
    \/ \E p \in procs : download_request(p)
    \/ \E p \in procs : download_chunk(p)
    \/ \E p \in procs : download_stream_error(p)
    \/ \E p \in procs : download_write_error(p)
    \/ \E p \in procs : download_end(p)
    \/ \E p \in procs : verify_begin(p)
    \/ \E p \in procs : verify_hash(p)
    \/ \E p \in procs : verify_read_error(p)
    \/ \E p \in procs : verify_compare(p)
    \/ \E p \in procs : extract_open(p)
    \/ \E p \in procs : extract_copy(p)
    \/ \E p \in procs : extract_copy_error(p)
    \/ \E p \in procs : extract_all(p)
    \/ \E p \in procs : extract_all_error(p)
    \/ \E p \in procs : extract_walk(p)
    \/ \E p \in procs : make_executable(p)
    \/ \E p \in procs : make_executable_error(p)

SpecRace == InitRace /\ [][NextRace]_vars

\* ------------------------------------------------------ MCPConfigManager

\* for s in servers ... s.get("name"), lines 180 and 212 of mcp_config.py:
\* the entries of the file but those named name.  A file that is absent or
\* not JSON counts as {"servers": []}; over a JSON array data.get raises,
\* and over a "servers" that is an object with keys s is a string and s.get
\* raises.
SavedWithout(mcp, name) ==
    IF mcp \in {NoText, InvalidJson} THEN Ok(<<>>)
    ELSE IF mcp = JsonArray THEN Err("AttributeError", <<"get">>)
    ELSE IF mcp[1] = "<json object>"
    THEN (IF mcp[2] = <<>> THEN Ok(<<>>) ELSE Err("AttributeError", <<"get">>))
    ELSE Ok(SelectSeq(mcp[2], LAMBDA e : e.name # name))

\* MCPConfigManager(), lines 77-124, where no project file exists: the
\* servers of the global file.  An entry of a "servers" object is a string,
\* and is skipped (TypeError, line 122).
mcp_manager_init(p) ==
    /\ ~mgr[p].made
    /\ LET mcp == home.files[HomePath.mcp]
       IN  IF mcp = JsonArray
           THEN /\ result' = [result EXCEPT ![p] = Err("AttributeError", <<"get">>)]
                /\ UNCHANGED mgr
           ELSE /\ mgr' = [mgr EXCEPT ![p] =
                              [made |-> TRUE,
                               servers |-> IF mcp \in {NoText, InvalidJson} \/ mcp[1] = "<json object>"
                                           THEN <<>> ELSE mcp[2]]]
                /\ result' = [result EXCEPT ![p] = Ok(<<>>)]
    /\ log' = [log EXCEPT ![p] = <<"MCPConfigManager">>]
    /\ UNCHANGED <<envVars, fsVars, environ, home, args, cli, agent, pc, ncalls, dest0, tmp_path,
                   tarball, resp, actual, member, net>>

\* add_server(config, scope="global"), lines 135-147 and 166-199
add_server(p, config) ==
    /\ mgr[p].made
    /\ mgr' = [mgr EXCEPT ![p].servers =
                  Append(SelectSeq(@, LAMBDA e : e.name # config.name), config)]
    /\ LET servers == SavedWithout(home.files[HomePath.mcp], config.name)
       IN  IF servers.st = "error"
           THEN /\ result' = [result EXCEPT ![p] = servers]
                /\ UNCHANGED home
           ELSE /\ home' = [home EXCEPT
                               !.dirs = @ \cup {HomePath.pretorin},
                               !.files[HomePath.mcp] =
                                   JsonServerList(Append(servers.info[1], config))]
                /\ result' = [result EXCEPT ![p] = Ok(<<>>)]
    /\ log' = [log EXCEPT ![p] = <<"add_server">>]
    /\ UNCHANGED <<envVars, fsVars, environ, args, cli, agent, pc, ncalls, dest0, tmp_path,
                   tarball, resp, actual, member, net>>

\* remove_server(name), lines 149-164 and 201-213
remove_server(p, name) ==
    /\ mgr[p].made
    /\ mgr' = [mgr EXCEPT ![p].servers = SelectSeq(@, LAMBDA e : e.name # name)]
    /\ LET mcp == home.files[HomePath.mcp]
           servers == SavedWithout(mcp, name)
       IN  IF \A i \in 1 .. Len(mgr[p].servers) : mgr[p].servers[i].name # name
           THEN /\ result' = [result EXCEPT ![p] = Ok(<<"False">>)]
                /\ UNCHANGED home
           ELSE IF mcp \in {NoText, InvalidJson}
           THEN /\ result' = [result EXCEPT ![p] = Ok(<<"True">>)]
                /\ UNCHANGED home
           ELSE IF servers.st = "error"
           THEN /\ result' = [result EXCEPT ![p] = servers]
                /\ UNCHANGED home
           ELSE /\ home' = [home EXCEPT !.files[HomePath.mcp] = JsonServerList(servers.info[1])]
                /\ result' = [result EXCEPT ![p] = Ok(<<"True">>)]
    /\ log' = [log EXCEPT ![p] = <<"remove_server">>]
    /\ UNCHANGED <<envVars, fsVars, environ, args, cli, agent, pc, ncalls, dest0, tmp_path,
                   tarball, resp, actual, member, net>>

\* A home directory with no mcp.json, one that is not JSON, or one written
\* by hand with "servers" an object; no manager made yet.
InitMcp ==
    /\ procs = {1}
    /\ host = <<"Linux", "x86_64">>
    /\ checksums = ChecksumsWithoutLinux
    /\ version = [p \in {1} |-> <<"v", "2">>]
    /\ binDir = FALSE
    /\ bin = [n \in BinNames |-> NoFile]
    /\ InitPipeline({1})
    /\ environ = [p \in {1} |-> [HOME |-> "/home/u"]]
    /\ \E mcp \in {NoText, InvalidJson, JsonObject(<<>>), JsonObject(<<Entry.github>>)} :
          home = [dirs |-> IF mcp = NoText THEN {} ELSE {HomePath.pretorin},
                  files |-> [f \in HomeFiles |-> IF f = HomePath.mcp THEN mcp ELSE NoText]]
    /\ args = [p \in {1} |-> NoArgs]
    /\ InitApp({1})

NextMcp ==
    \/ \E p \in procs : mcp_manager_init(p)
    \/ \E p \in procs, config \in {Entry.github, Entry.web, Entry.pretorin} : add_server(p, config)
    \/ \E p \in procs, name \in {Val.github, Val.web, Lit.pretorin} : remove_server(p, name)
    \/ \E p \in procs : write_config(p)

SpecMcp == InitMcp /\ [][NextMcp]_vars

\* ------------------------------------------------------------- properties

InLog(p, e) == \E i \in 1 .. Len(log[p]) : log[p][i] = e

\* p takes the step that enters ensure_installed.
Calls(p) == pc[p] = "idle" /\ ncalls'[p] = ncalls[p] + 1

\* C1: ensure_installed is idempotent.  A call made while the file at
\* bin/codex-<version> exists and is executable returns that path at once:
\* it detects no platform, makes no request, runs no stage, creates no
\* temporary file or directory and leaves every file as it was; so it is for
\* every call, the first and the repeated ones.
C1_Idempotent ==
    [][\A p \in procs :
          (/\ Calls(p)
           /\ bin[binary_path(p)].exists
           /\ bin[binary_path(p)].mode \cap AnyExecMask # {})
          => /\ result'[p] = Ok(N_codex_dash \o version[p])
             /\ pc'[p] = "idle"
             /\ log'[p] = <<>>
             /\ net' = net
             /\ UNCHANGED <<binDir, bin, tmp, xdir>>]_vars

\* A second call returned at once the binary the first call had downloaded.
C1_Witness ==
    \E p \in procs :
        /\ ncalls[p] = 2
        /\ net = 1
        /\ pc[p] = "idle"
        /\ result[p].st = "ok"
        /\ log[p] = <<>>

StageOrder ==
    <<"Download", "Download.ok", "Verify", "Verify.ok", "Extract", "Extract.ok",
      "SetPermissions", "SetPermissions.ok">>

StageMarks == {StageOrder[i] : i \in 1 .. Len(StageOrder)} \cup {"Verify.skipped"}

IsStageMark(e) == e \in StageMarks

\* The stage starts and stage completions of p's call, in order.
StageEvents(p) == SelectSeq(log[p], IsStageMark)

\* C2: the stages of a call run in the order Download, Verify, Extract,
\* SetPermissions, each started only after the one before it completed (a
\* verification skipped for want of a registered digest counts as completed);
\* once a stage has failed the call has ended with that error, so no later
\* stage starts, and chmod is applied only after the three stages before it
\* succeeded.
C2_StagesInOrder ==
    \A p \in procs :
        LET ev == StageEvents(p)
        IN  /\ Len(ev) <= Len(StageOrder)
            /\ \A i \in 1 .. Len(ev) :
                  \/ ev[i] = StageOrder[i]
                  \/ i = 4 /\ ev[i] = "Verify.skipped"
            /\ result[p].st = "error" => pc[p] = "idle"
            /\ InLog(p, "chmod") =>
                  /\ InLog(p, "Download.ok")
                  /\ InLog(p, "Verify.ok") \/ InLog(p, "Verify.skipped")
                  /\ InLog(p, "Extract.ok")

\* A call that ran all four stages, and one whose extraction failed.
C2_Witness ==
    \E p \in procs :
        /\ pc[p] = "idle"
        /\ result[p].kind = "ExtractionFailure"
        /\ StageEvents(p) = SubSeq(StageOrder, 1, 5)

\* C3: a call that starts with no file at the destination and returns has
\* returned bin/codex-<version>; a file is then at that path with the
\* owner-executable bit set and the bytes of the archive's member,
\* is_installed is true, and the call that follows makes no request.
C3_FreshInstall ==
    [][\A p \in procs :
          /\ (pc[p] = "chmod" /\ pc'[p] = "idle" /\ result'[p].st = "ok"
                /\ ~dest0[p].exists)
             => /\ result'[p] = Ok(N_codex_dash \o version[p])
                /\ bin'[N_codex_dash \o version[p]].exists
                /\ bin'[N_codex_dash \o version[p]].full
                /\ S_IXUSR \in bin'[N_codex_dash \o version[p]].mode
                /\ is_installed(p)'
          /\ (Calls(p) /\ result[p].st = "ok" /\ InLog(p, "SetPermissions.ok"))
             => /\ net' = net
                /\ pc'[p] = "idle"
                /\ result'[p] = Ok(N_codex_dash \o version[p])]_vars

\* The fresh install of an archive whose digest matched the registered one.
C3_Witness ==
    \E p \in procs :
        /\ pc[p] = "idle"
        /\ result[p].st = "ok"
        /\ ~dest0[p].exists
        /\ InLog(p, "Verify.ok")
        /\ host = <<"Linux", "x86_64">>
        /\ S_IXUSR \in bin[binary_path(p)].mode

\* C4: when the digest computed of the downloaded archive differs from the
\* registered one, the call ends there with ChecksumMismatch carrying the
\* expected and the actual digest; the temporary archive is gone, no file
\* changed, extraction and chmod did not run, and a destination that did not
\* exist when the call began does not exist.
C4_ChecksumMismatch ==
    [][\A p \in procs :
          (/\ pc[p] = "compare"
           /\ pc'[p] # pc[p]
           /\ actual[p] # checksums[detect_platform(host)])
          => /\ result'[p] =
                   Err("ChecksumMismatch", <<checksums[detect_platform(host)], actual[p]>>)
             /\ pc'[p] = "idle"
             /\ ~tmp'[tarball[p]].exists
             /\ ~InLog(p, "Extract")'
             /\ ~InLog(p, "SetPermissions")'
             /\ bin' = bin
             /\ ~dest0[p].exists => ~bin'[binary_path(p)].exists]_vars

\* A call into a fresh environment ended with ChecksumMismatch.
C4_Witness ==
    \E p \in procs :
        /\ pc[p] = "idle"
        /\ result[p].kind = "ChecksumMismatch"
        /\ ~dest0[p].exists
        /\ ~bin[binary_path(p)].exists

\* C5: is_installed is true exactly when the file at bin/codex-<version>
\* exists and has the owner-executable bit; a file with only the group- or
\* other-executable bit is NotInstalled.
C5_OwnerExecutableIff ==
    \A p \in procs :
        is_installed(p) <=>
            /\ bin[binary_path(p)].exists
            /\ S_IXUSR \in bin[binary_path(p)].mode

\* C6: when a call of ensure_installed has ended, by return or by raise, the
\* temporary archive and the temporary extraction directory it created no
\* longer exist.
C6_TemporariesScoped ==
    \A p \in procs :
        pc[p] = "idle" =>
            /\ tmp_path[p] = 0 \/ ~tmp[tmp_path[p]].exists
            /\ ~xdir[p].exists

\* The failures of the network and of HTTP that httpx reports.
NetworkFailures == RequestFailures \cup {"ReadError", "ReadTimeout"}

\* C7: a download that fails in the network or in HTTP, before or in the
\* middle of the body, ends the call with DownloadFailure wrapping that
\* cause; the partial temporary file is deleted, _tarball_path is not
\* assigned and no file of the bin directory changes.
C7_DownloadFailure ==
    [][\A p \in procs :
          (/\ pc[p] \in {"request", "stream"}
           /\ pc'[p] = "idle"
           /\ \E c \in NetworkFailures : result'[p].info = <<c>>)
          => /\ result'[p].st = "error"
             /\ result'[p].kind = "DownloadFailure"
             /\ ~tmp'[tmp_path[p]].exists
             /\ tarball' = tarball
             /\ ~InLog(p, "Download.ok")'
             /\ bin' = bin]_vars

\* The body stream broke after a part of the archive had been written.
C7_Witness ==
    \E p \in procs :
        /\ pc[p] = "idle"
        /\ result[p] = Err("DownloadFailure", <<"ReadError">>)
        /\ tmp_path[p] # 0
        /\ ~tmp[tmp_path[p]].exists

\* The files of archive a whose base name is "codex" or starts with "codex-",
\* by their place in the archive.
CandidateFiles(a) ==
    {i \in 1 .. Len(a.members) : a.members[i].isfile /\ NameMatches(a.members[i].name)}

FirstCandidateFile(a) ==
    a.members[CHOOSE i \in CandidateFiles(a) : \A j \in CandidateFiles(a) : i <= j]

\* C8: for every readable archive holding a file whose base name is "codex"
\* or starts with "codex-", whatever precedes it, extraction does not fail
\* for want of a binary and the bytes it writes at the destination are those
\* of the first such file in archive order.
C8_FirstCandidateFileExtracted ==
    \A p \in procs :
        (/\ resp[p] # 0
         /\ ~Archives[resp[p]].corrupt
         /\ CandidateFiles(Archives[resp[p]]) # {})
        => /\ result[p].kind # "ExtractionFailure"
           /\ pc[p] = "chmod" =>
                 /\ bin[binary_path(p)].full
                 /\ bin[binary_path(p)].data = FirstCandidateFile(Archives[resp[p]]).data

\* An archive with no matching member at its top level and a file named
\* "codex" or "codex-cli" in a subdirectory.
NestedOnly(a) ==
    /\ \A i \in 1 .. Len(a.members) :
          Len(a.members[i].name) = 1 => ~NameMatches(a.members[i].name)
    /\ \E i \in 1 .. Len(a.members) :
          /\ a.members[i].isfile
          /\ Len(a.members[i].name) > 1
          /\ BaseName(a.members[i].name) \in {N_codex, N_codex_cli}

\* C9 as stated: a binary nested in a subdirectory, with no matching member
\* at the top level, is one the member-name search misses and the walk of
\* the fully extracted archive locates and installs.
C9_NestedInstalledByFallback ==
    \A p \in procs :
        (pc[p] = "chmod" /\ resp[p] # 0 /\ NestedOnly(Archives[resp[p]]))
        => InLog(p, "copy2")

\* C9, amended: the member-name search compares base names at any depth, so
\* it finds a binary nested in a subdirectory and copies it itself; whenever
\* it finds nothing the extracted tree holds no "codex" or "codex-cli"
\* either, and the fallback installs nothing and ends in ExtractionFailure.
C9_FallbackFindsNothing ==
    \A p \in procs :
        /\ xdir[p].exists => WalkCandidates(xdir[p].files) = {}
        /\ ~InLog(p, "copy2")
        /\ (InLog(p, "walk") /\ pc[p] = "idle") => result[p].kind = "ExtractionFailure"
        /\ (pc[p] = "chmod" /\ resp[p] # 0 /\ NestedOnly(Archives[resp[p]]))
           => InLog(p, "copyfileobj")

\* The fallback ran on an archive the name search found nothing in, walked
\* the extracted tree and found no binary.
C9_Witness ==
    \E p \in procs :
        /\ pc[p] = "idle"
        /\ InLog(p, "extractall")
        /\ InLog(p, "walk")
        /\ result[p].kind = "ExtractionFailure"

ExtractPcs == {"extract", "copy", "fallback", "walk"}

\* Archive a holds no member, at any depth, whose base name is "codex" or
\* "codex-cli" or starts with "codex-".
HoldsNoCandidate(a) ==
    \A i \in 1 .. Len(a.members) :
        LET b == a.members[i].name[Len(a.members[i].name)]
        IN  /\ b # N_codex
            /\ b # N_codex_cli
            /\ ~StartsWith(b, N_codex_dash)

\* C10: extracting a readable archive that holds no candidate, by member
\* name or in the extracted tree, changes no file of the bin directory,
\* never reaches the copy or chmod, and ends the call with
\* ExtractionFailure (or with the error of extractall, if that raised), the
\* temporary directory removed; and every step that leaves extraction,
\* to chmod or by a raise, leaves the temporary archive deleted.
C10_NoCandidate ==
    [][\A p \in procs :
          /\ (/\ pc[p] \in ExtractPcs
              /\ pc'[p] # pc[p]
              /\ Readable(tmp[tarball[p]])
              /\ HoldsNoCandidate(Archives[tmp[tarball[p]].arch]))
             => /\ bin' = bin
                /\ pc'[p] \in {"fallback", "walk", "idle"}
                /\ pc'[p] = "idle" =>
                      /\ \/ result'[p] =
                               Err("ExtractionFailure",
                                   <<"Could not find codex binary in tarball">>)
                         \/ result'[p] = Err("OSError", <<"extractall">>)
                      /\ ~xdir'[p].exists
                /\ pc[p] = "walk" => result'[p].kind = "ExtractionFailure"
                /\ ~InLog(p, "chmod")'
          /\ (pc[p] \in ExtractPcs /\ pc'[p] \notin ExtractPcs)
             => ~tmp'[tarball[p]].exists]_vars

\* Extraction of an archive without a binary ended the call.
C10_Witness ==
    \E p \in procs :
        /\ pc[p] = "idle"
        /\ result[p] = Err("ExtractionFailure", <<"Could not find codex binary in tarball">>)
        /\ bin[binary_path(p)] = dest0[p]
        /\ ~tmp[tarball[p]].exists


\* C11: when no digest is registered for the detected platform key, the
\* verification step only warns: it goes on to extraction, raises nothing,
\* computes no digest and leaves the downloaded archive in place.  A call
\* that skipped verification never ends with ChecksumMismatch, has entered
\* extraction, and when it returns the installed file is the archive's
\* member with the owner-executable bit.
C11_NoDigestSkips ==
    [][\A p \in procs :
          /\ (/\ pc[p] = "verify"
              /\ pc'[p] # "verify"
              /\ checksums[detect_platform(host)] = NoDigest)
             => /\ pc'[p] = "extract"
                /\ result'[p] = NoResult
                /\ tmp' = tmp
                /\ tmp'[tarball[p]].exists
                /\ InLog(p, "warning")'
                /\ ~InLog(p, "hash")'
          /\ (InLog(p, "Verify.skipped") /\ pc[p] # "idle" /\ pc'[p] = "idle")
             => /\ result'[p].kind # "ChecksumMismatch"
                /\ InLog(p, "Extract")'
                /\ ~InLog(p, "hash")'
                /\ result'[p].st = "ok" =>
                      /\ result'[p] = Ok(N_codex_dash \o version[p])
                      /\ bin'[N_codex_dash \o version[p]].full
                      /\ S_IXUSR \in bin'[N_codex_dash \o version[p]].mode]_vars

\* An install on a platform without a registered digest returned.
C11_Witness ==
    \E p \in procs :
        /\ pc[p] = "idle"
        /\ result[p].st = "ok"
        /\ InLog(p, "Verify.skipped")
        /\ checksums[detect_platform(host)] = NoDigest
        /\ InLog(p, "SetPermissions.ok")
        /\ ~dest0[p].exists


\* The spellings of the names the claim of C12 speaks of.
IsDarwin(h) == h[1] \in {"Darwin", "DARWIN", "darwin"}
IsLinux(h) == h[1] \in {"Linux", "LINUX", "linux"}
IsArm64(h) == h[2] \in {"arm64", "ARM64"}
IsX86_64(h) == h[2] \in {"x86_64", "X86_64"}

\* The step of p that detects the platform at the start of the download.
Detects(p) == pc[p] = "download" /\ pc'[p] # "download"

\* The step is a raise of UnsupportedPlatform naming system and machine that
\* made no directory, no temporary file and no request.
RaisesUnsupported(p) ==
    /\ pc'[p] = "idle"
    /\ result'[p].kind = "UnsupportedPlatform"
    /\ result'[p].info \in {<<"windows", "amd64">>, <<"windows", "arm64">>,
                            <<"freebsd", "amd64">>, <<"darwin", "i386">>}
    /\ UNCHANGED <<fsVars, net, tmp_path>>

\* The step went on with platform key k.
Detected(p, k) ==
    /\ pc'[p] = "request"
    /\ result'[p] = NoResult
    /\ Len(log'[p]) >= 3
    /\ log'[p][3] = k

\* C12 as stated: darwin with arm64 gives darwin-arm64, darwin with x86-64
\* darwin-x64, linux gives linux-x64, in any spelling, and every other pair
\* of system and machine raises UnsupportedPlatform with no side effect.
C12_OtherCombinationsRaise ==
    [][\A p \in procs :
          Detects(p) =>
             IF IsDarwin(host) /\ IsArm64(host) THEN Detected(p, "darwin-arm64")
             ELSE IF IsDarwin(host) /\ IsX86_64(host) THEN Detected(p, "darwin-x64")
             ELSE IF IsLinux(host) THEN Detected(p, "linux-x64")
             ELSE RaisesUnsupported(p)]_vars

\* C12, amended: darwin with arm64 gives darwin-arm64, darwin with any other
\* machine gives darwin-x64, linux with any machine gives linux-x64, in any
\* spelling, and every other system raises UnsupportedPlatform naming system
\* and machine with no side effect.
C12_PlatformKey ==
    [][\A p \in procs :
          Detects(p) =>
             IF IsDarwin(host) /\ IsArm64(host) THEN Detected(p, "darwin-arm64")
             ELSE IF IsDarwin(host) THEN Detected(p, "darwin-x64")
             ELSE IF IsLinux(host) THEN Detected(p, "linux-x64")
             ELSE RaisesUnsupported(p)]_vars

\* Detection answered for a name in capitals, for a machine that is neither
\* arm64 nor x86-64, or raised.
C12_Witness ==
    \E p \in procs :
        /\ Len(log[p]) >= 2
        /\ log[p][2] = "detect"
        /\ \/ host = <<"DARWIN", "arm64">> /\ pc[p] = "request"
           \/ host = <<"Darwin", "i386">> /\ pc[p] = "request"
           \/ host = <<"FreeBSD", "amd64">> /\ result[p].kind = "UnsupportedPlatform"


ReservedEnvKeys == {"CODEX_HOME", "OPENAI_API_KEY", "OPENAI_BASE_URL", "PATH", "HOME"}

\* build_env has returned to p.
BuiltEnv(p) == args[p] # NoArgs /\ result[p].st = "ok"

\* Both hold the variable with one value, or neither holds it.
AgreeOn(e1, e2, key) ==
    /\ key \in DOMAIN e1 <=> key \in DOMAIN e2
    /\ key \in DOMAIN e1 => e1[key] = e2[key]

\* C13: the keys of the map build_env returns are the five reserved keys
\* and the keys of the overrides, nothing more; and two processes whose
\* environments agree on PATH and HOME, whatever else they hold, get the
\* same map for the same arguments.
C13_EnvIsolated ==
    /\ \A p \in procs :
          BuiltEnv(p) => DOMAIN result[p].info[1] = ReservedEnvKeys \cup DOMAIN args[p].extra
    /\ \A p, q \in procs :
          (/\ BuiltEnv(p)
           /\ BuiltEnv(q)
           /\ args[p] = args[q]
           /\ AgreeOn(environ[p], environ[q], "PATH")
           /\ AgreeOn(environ[p], environ[q], "HOME"))
          => result[p] = result[q]

\* Two processes that differ in a secret and in an API key of their
\* environments have both built the map for the same arguments.
C13_Witness ==
    /\ BuiltEnv(1)
    /\ BuiltEnv(2)
    /\ args[1] = args[2]
    /\ AgreeOn(environ[1], environ[2], "PATH")
    /\ AgreeOn(environ[1], environ[2], "HOME")
    /\ "AWS_SECRET_ACCESS_KEY" \in DOMAIN environ[1]
    /\ "AWS_SECRET_ACCESS_KEY" \notin DOMAIN environ[2]
    /\ "OPENAI_API_KEY" \in DOMAIN environ[1]
    /\ "OPENAI_API_KEY" \notin DOMAIN environ[2]

\* C14: in the map build_env returns every key of the overrides has the
\* override's value, the reserved ones too; a reserved key that is not
\* overridden has the codex home, the api_key, the base_url and the PATH and
\* HOME of the process, the empty string where the process has none.
C14_OverridesWin ==
    \A p \in procs :
        BuiltEnv(p) =>
            LET env == result[p].info[1]
                extra == args[p].extra
                Default(k) ==
                    CASE k = "CODEX_HOME" -> codex_home(p)
                      [] k = "OPENAI_API_KEY" -> args[p].api_key
                      [] k = "OPENAI_BASE_URL" -> args[p].base_url
                      [] k = "PATH" ->
                           IF "PATH" \in DOMAIN environ[p] THEN environ[p]["PATH"] ELSE ""
                      [] k = "HOME" ->
                           IF "HOME" \in DOMAIN environ[p] THEN environ[p]["HOME"] ELSE ""
            IN  /\ \A k \in DOMAIN extra : env[k] = extra[k]
                /\ \A k \in ReservedEnvKeys \ DOMAIN extra : env[k] = Default(k)

\* A map built with overrides of reserved keys in a process without PATH.
C14_Witness ==
    \E p \in procs :
        /\ BuiltEnv(p)
        /\ "PATH" \notin DOMAIN environ[p]
        /\ "CODEX_HOME" \in DOMAIN args[p].extra
        /\ result[p].info[1]["CODEX_HOME"] = "/elsewhere"
        /\ result[p].info[1]["PATH"] = ""


\* The characters a bare key may hold, as C16 lists them.
AsciiLetters ==
    {"a", "b", "c", "d", "e", "f", "g", "h", "i", "j", "k", "l", "m", "n",
     "o", "p", "q", "r", "s", "t", "u", "v", "w", "x", "y", "z", "A", "B",
     "C", "D", "E", "F", "G", "H", "I", "J", "K", "L", "M", "N", "O", "P",
     "Q", "R", "S", "T", "U", "V", "W", "X", "Y", "Z"}
AsciiDigits == {"0", "1", "2", "3", "4", "5", "6", "7", "8", "9"}

\* p's last call was of method m.
Applied(p, m) == log[p] = <<m>>

\* C16: the validator returns the key unchanged when the key is not empty
\* and holds only ASCII letters, digits, underscores and hyphens, and
\* raises ConfigKeyInvalid for every other string, the empty one too.
C16_BareKey ==
    \A p \in procs :
        Applied(p, "_toml_bare_key") =>
            LET key == args[p].value
                wellFormed ==
                    /\ key # <<>>
                    /\ \A i \in 1 .. Len(key) :
                          key[i] \in AsciiLetters \cup AsciiDigits \cup {"_", "-"}
            IN  /\ wellFormed => result[p] = Ok(key)
                /\ ~wellFormed =>
                      /\ result[p].st = "error"
                      /\ result[p].kind = "ConfigKeyInvalid"

\* The validator rejected a key with a valid first character and a dot, and
\* accepted one of a letter and a hyphen.
C16_Witness ==
    \E p \in procs :
        /\ Applied(p, "_toml_bare_key")
        /\ \/ args[p].value = <<"a", ".">> /\ result[p].st = "error"
           \/ args[p].value = <<"Z", "-">> /\ result[p].st = "ok"

\* Decoding of the body of a TOML basic string: the five escapes give their
\* character; a backslash before anything else, a quote without a backslash
\* and a raw newline, carriage return or tab are errors.
TomlError == <<"<not a basic string>">>

RECURSIVE TomlDecode(_)
TomlDecode(s) ==
    IF s = <<>> THEN <<>>
    ELSE IF Head(s) \in {Quote, LF, CR, Tab} THEN TomlError
    ELSE IF Head(s) # Backslash
         THEN (LET rest == TomlDecode(Tail(s))
               IN  IF rest = TomlError THEN TomlError ELSE <<Head(s)>> \o rest)
    ELSE IF Len(s) < 2 THEN TomlError
    ELSE LET c == s[2]
             d == CASE c = Backslash -> Backslash
                    [] c = Quote -> Quote
                    [] c = "n" -> LF
                    [] c = "r" -> CR
                    [] c = "t" -> Tab
                    [] OTHER -> "<bad escape>"
             rest == TomlDecode(SubSeq(s, 3, Len(s)))
         IN  IF d = "<bad escape>" \/ rest = TomlError THEN TomlError ELSE <<d>> \o rest

Specials(s) == {i \in 1 .. Len(s) : s[i] \in {Backslash, Quote, LF, CR, Tab}}

\* C17: decoding the escaped string as a TOML basic string gives the string
\* back; the escaped string holds no raw newline, carriage return or tab and
\* no quote without a backslash before it; and it is longer than the string
\* by one character for each character escaped, so no backslash that an
\* escape brought in was escaped again.
C17_EscapeRoundTrip ==
    \A p \in procs :
        Applied(p, "_toml_escape") =>
            LET value == args[p].value
                out == result[p].info[1]
            IN  /\ TomlDecode(out) = value
                /\ \A i \in 1 .. Len(out) :
                      /\ out[i] \notin {LF, CR, Tab}
                      /\ out[i] = Quote => i > 1 /\ out[i - 1] = Backslash
                /\ Len(out) = Len(value) + Cardinality(Specials(value))

\* A backslash followed by the letter n, then a newline, was escaped.
C17_Witness ==
    \E p \in procs :
        /\ Applied(p, "_toml_escape")
        /\ args[p].value = <<Backslash, "n", LF>>
        /\ result[p].info[1] = <<Backslash, Backslash, "n", Backslash, "n">>


\* The step is a call of write_config by p.
WroteConfig(p) == log'[p] # <<>> /\ log'[p][1] = "write_config"

\* C15: a call of write_config that raises ConfigKeyInvalid, for the
\* provider name or for the name of a server of mcp.json, has made no
\* directory and has read and written no file.
C15_InvalidKeyNoIO ==
    [][\A p \in procs :
          (WroteConfig(p) /\ result'[p].kind = "ConfigKeyInvalid")
          => /\ home' = home
             /\ \A i \in 1 .. Len(log'[p]) :
                   log'[p][i] \notin {"mkdir", "read mcp.json", "write config.toml"}]_vars

\* The lines of a text, each ended by a newline.
LineEnds(text) == {i \in 1 .. Len(text) : text[i] = LF}

SplitLines(text) ==
    LET ends == LineEnds(text)
        End(k) == CHOOSE e \in ends : Cardinality({j \in ends : j <= e}) = k
        Start(k) == IF k = 1 THEN 1 ELSE End(k - 1) + 1
    IN  [k \in 1 .. Cardinality(ends) |-> SubSeq(text, Start(k), End(k) - 1)]

IsMcpHeader(line) ==
    /\ Len(line) > Len(Lit.mcp_servers)
    /\ SubSeq(line, 1, Len(Lit.mcp_servers)) = Lit.mcp_servers
    /\ line[Len(line)] = "]"

\* The names of the servers of mcp.json, in the order of the file, without
\* the reserved one.
SideFileNames(mcp) ==
    IF mcp \in {NoText, InvalidJson, JsonArray} THEN <<>>
    ELSE LET kept == SelectSeq(mcp[2], LAMBDA e : e.name # Lit.pretorin)
         IN  [i \in 1 .. Len(kept) |-> kept[i].name]

\* A config file that a call of write_config wrote.
Produced(config) == config \notin {NoText, Val.old_config}

\* C18: a config file write_config wrote has exactly one line
\* [mcp_servers.pretorin], followed by command = "pretorin" and
\* args = ["mcp-serve"], whatever mcp.json holds; its subsections of
\* mcp_servers are the reserved one and then one for each server of
\* mcp.json that is not named pretorin, in the order of the file.
C18_ReservedServerOnce ==
    Produced(home.files[HomePath.config]) =>
        LET lines == SplitLines(home.files[HomePath.config])
            reserved == {i \in 1 .. Len(lines) : lines[i] = Lit.mcp_pretorin}
            headers == SelectSeq(lines, IsMcpHeader)
            names == SideFileNames(home.files[HomePath.mcp])
        IN  /\ Cardinality(reserved) = 1
            /\ \A i \in reserved :
                  /\ Len(lines) >= i + 2
                  /\ lines[i + 1] = Lit.command_pretorin
                  /\ lines[i + 2] = Lit.args_mcp_serve
            /\ headers = <<Lit.mcp_pretorin>> \o
                         [i \in 1 .. Len(names) |-> Lit.mcp_servers \o names[i] \o <<"]">>]

\* A config was written from an mcp.json that lists a server named
\* pretorin between two others.
C18_Witness ==
    /\ Produced(home.files[HomePath.config])
    /\ home.files[HomePath.mcp] = JsonObject(<<Entry.web, Entry.pretorin, Entry.github>>)
    /\ \E p \in procs : result[p].st = "ok"

\* C19: a call of write_config leaves every file but
\* <codex_home>/config.toml as it was, ~/.codex/config.toml and mcp.json
\* among them, removes no directory and makes none but the codex home and
\* its parent, and touches nothing of the bin directory; when it returns,
\* it returns <codex_home>/config.toml, and the codex home and that file
\* exist.
C19_WritesOnlyConfig ==
    [][\A p \in procs :
          WroteConfig(p) =>
             /\ \A f \in HomeFiles \ {HomePath.config} : home'.files[f] = home.files[f]
             /\ home.dirs \subseteq home'.dirs
             /\ home'.dirs \ home.dirs \subseteq {HomePath.pretorin, HomePath.codex_home}
             /\ UNCHANGED fsVars
             /\ result'[p].st = "ok" =>
                   /\ result'[p] = Ok(<<"/home/u", ".pretorin", "codex", "config.toml">>)
                   /\ HomePath.codex_home \in home'.dirs
                   /\ Produced(home'.files[HomePath.config])]_vars

\* A call has written the config beside the user's own Codex configuration
\* and an mcp.json.
C19_Witness ==
    \E p \in procs :
        /\ result[p].st = "ok"
        /\ Produced(home.files[HomePath.config])
        /\ home.files[HomePath.user_config] = Val.user_config
        /\ home.files[HomePath.mcp] = JsonObject(<<Entry.github>>)


\* The step is a return of cleanup_old_versions to p.
CleanedUp(p) == log'[p] = <<"cleanup_old_versions">> /\ result'[p].st = "ok"

\* The name is "codex-" and a suffix, the naming of the binaries.
FollowsNaming(name) ==
    /\ Len(name) >= 6
    /\ <<name[1], name[2], name[3], name[4], name[5], name[6]>> =
          <<"c", "o", "d", "e", "x", "-">>

\* C20: when cleanup_old_versions returns, no entry of the bin directory
\* named codex-<suffix> is there but the pinned binary; the pinned binary
\* and every entry not so named are as before, so an installed binary stays
\* installed; the list returned holds the entries deleted, each once; and
\* without a bin directory the list is empty and nothing changed.
C20_CleanupRemovesOldVersions ==
    [][\A p \in procs :
          CleanedUp(p) =>
             LET pinned == N_codex_dash \o version[p]
                 removed == result'[p].info[1]
             IN  /\ \A n \in BinNames :
                       /\ (FollowsNaming(n) /\ n # pinned) => ~bin'[n].exists
                       /\ (~FollowsNaming(n) \/ n = pinned) => bin'[n] = bin[n]
                 /\ is_installed(p) => is_installed(p)'
                 /\ {removed[i] : i \in 1 .. Len(removed)} =
                       {n \in BinNames : bin[n].exists /\ ~bin'[n].exists}
                 /\ Len(removed) = Cardinality({n \in BinNames : bin[n].exists /\ ~bin'[n].exists})
                 /\ UNCHANGED <<binDir, tmp, xdir, home>>
                 /\ ~binDir => removed = <<>> /\ bin' = bin]_vars

\* A cleanup removed the binary of the other version and codex-cli and kept
\* the installed pinned binary, "codex" and "other-tool".
C20_Witness ==
    \E p \in procs :
        /\ log[p] = <<"cleanup_old_versions">>
        /\ result[p].st = "ok"
        /\ Len(result[p].info[1]) = 2
        /\ is_installed(p)
        /\ bin[N_codex].exists
        /\ bin[N_other_tool].exists


\* C21: the path of the binary is codex-<version> under the bin directory,
\* different for different versions, and no step of ensure_installed, in a
\* call that returns or in one that raises, creates, changes or removes an
\* entry of the bin directory other than the path of its version.
C21_OnlyOwnPath ==
    /\ \A v, w \in Versions : v # w => binary_name(v) # binary_name(w)
    /\ [][\A p \in procs :
             /\ binary_path(p) = <<"c", "o", "d", "e", "x", "-">> \o version[p]
             /\ \A n \in DOMAIN bin :
                   n # <<"c", "o", "d", "e", "x", "-">> \o version[p] => bin'[n] = bin[n]]_vars

\* An install of one version returned beside the binary of the other.
C21_Witness ==
    \E p \in procs :
        /\ pc[p] = "idle"
        /\ result[p].st = "ok"
        /\ InLog(p, "SetPermissions.ok")
        /\ \E v \in Versions :
              /\ v # version[p]
              /\ bin[N_codex_dash \o v] = File("old", TRUE, ModeAllExec)

\* The file at the pinned path of p exists with one of the bits 0o111.
OnDiskExecutable(p) ==
    /\ bin[<<"c", "o", "d", "e", "x", "-">> \o version[p]].exists
    /\ bin[<<"c", "o", "d", "e", "x", "-">> \o version[p]].mode
          \cap {S_IXUSR, S_IXGRP, S_IXOTH} # {}

\* C22: the install state is not cached.  A binary deleted or stripped of
\* its executable bits from outside after a successful install is reported
\* NotInstalled by the same runtime object, whatever its last call returned,
\* and the call of ensure_installed that follows starts the pipeline again
\* and returns only after the four stages Download, Verify, Extract and
\* SetPermissions ran, every call deciding by the file on disk alone.
C22_NoCachedState ==
    /\ [](\A p \in procs : is_installed(p) <=> OnDiskExecutable(p))
    /\ [][\A p \in procs :
             /\ (Calls(p) /\ ~OnDiskExecutable(p))
                => /\ pc'[p] = "download"
                   /\ result'[p].st = "none"
                   /\ log'[p] = <<>>
             /\ (Calls(p) /\ OnDiskExecutable(p)) => pc'[p] = "idle"
             /\ (pc[p] # "idle" /\ pc'[p] = "idle" /\ result'[p].st = "ok")
                => \A i \in {1, 3, 5, 7} :
                      \E j \in 1 .. Len(log'[p]) : log'[p][j] = StageOrder[i]]_vars

\* The second call installed the binary again after it had been installed
\* and then deleted from outside.
C22_Witness ==
    \E p \in procs :
        /\ ncalls[p] = 2
        /\ "unlink" \in outside
        /\ pc[p] = "idle"
        /\ result[p].st = "ok"
        /\ Len(StageEvents(p)) = Len(StageOrder)
        /\ net = 2
        /\ is_installed(p)

\* The file members of archive a the member search can select, by the bytes
\* they hold.
SelectableBytes(a) == {a.members[i].data : i \in CandidateFiles(a)}

\* The archive p's call downloaded is one _verify_checksum lets pass on this
\* host: its digest is the registered one, or none is registered.
PassedVerification(p) ==
    /\ resp[p] \in ArchIds
    /\ \/ checksums[detect_platform(host)] = <<>>
       \/ checksums[detect_platform(host)] = <<"sha256", resp[p], "all">>

\* C27: in one process that starts with no file at the destination and makes
\* calls of ensure_installed and cleanup_old_versions in any sequence, every
\* stage failing wherever it can (the copy of the binary part-way included),
\* is_installed is true only of a complete file: the step that makes it true
\* leaves at the destination all the bytes of a member, selectable by its
\* name, of the archive this call downloaded and verified (or downloaded for
\* a platform with no registered digest), and while it stays true the bytes
\* stay; a part-written or empty file is never reported Installed.
C27_InstalledIsComplete ==
    /\ [](\A p \in procs :
             is_installed(p) =>
                /\ bin[binary_path(p)].full
                /\ bin[binary_path(p)].data # "")
    /\ [][\A p \in procs :
             /\ (~is_installed(p) /\ is_installed(p)')
                => /\ PassedVerification(p)
                   /\ bin'[binary_path(p)].full
                   /\ bin'[binary_path(p)].data \in SelectableBytes(Archives[resp[p]])
             /\ (is_installed(p) /\ is_installed(p)')
                => bin'[binary_path(p)].data = bin[binary_path(p)].data]_vars

\* A copy that broke part-way left a partial file, which the call after it
\* replaced by a complete one; and the partial file itself, not installed.
C27_Witness ==
    \E p \in procs :
        /\ ncalls[p] = 2
        /\ dest0[p].exists
        /\ ~dest0[p].full
        /\ is_installed(p)
        /\ bin[binary_path(p)].full
        /\ result[p].st = "ok"
        /\ InLog(p, "Verify.ok")

\* The string is not empty and holds only ASCII letters, digits, "_" and "-".
FitsBareKeyPattern(key) ==
    /\ Len(key) > 0
    /\ \A i \in 1 .. Len(key) : key[i] \in AsciiLetters \cup AsciiDigits \cup {"_", "-"}

\* C29: write_config validates before it writes.  A call whose provider
\* name, or the name of any server of mcp.json it would emit, fails the
\* bare-key pattern raises ConfigKeyInvalid and leaves every file as it was,
\* a config.toml written earlier byte for byte; no call that raises changes
\* config.toml, so the file is only ever replaced by a call that returns,
\* with the whole of the config it built.
C29_ValidatesBeforeWriting ==
    [][\A p \in procs :
          WroteConfig(p) =>
             LET names == SideFileNames(home.files[HomePath.mcp])
                 invalid ==
                     \/ ~FitsBareKeyPattern(args'[p].provider_name)
                     \/ \E i \in 1 .. Len(names) : ~FitsBareKeyPattern(names[i])
             IN  /\ invalid =>
                       /\ result'[p].st = "error"
                       /\ result'[p].kind = "ConfigKeyInvalid"
                       /\ home'.files = home.files
                 /\ result'[p].st = "error" =>
                       home'.files[HomePath.config] = home.files[HomePath.config]
                 /\ home'.files[HomePath.config] # home.files[HomePath.config] =>
                       /\ result'[p].st = "ok"
                       /\ ~invalid]_vars

\* A call with a valid provider name raised for the second server of
\* mcp.json, after a valid first one, and the config written earlier is
\* still there.
C29_Witness ==
    \E p \in procs :
        /\ result[p].kind = "ConfigKeyInvalid"
        /\ args[p] # NoArgs
        /\ args[p].provider_name = Lit.pretorin
        /\ home.files[HomePath.mcp] = JsonObject(<<Entry.github, Entry.dotted>>)
        /\ home.files[HomePath.config] = Val.old_config

\* C25: the API key of a CodexAgent is the api_key argument when that is not
\* empty; else the variable PRETORIN_LLM_API_KEY when set and not empty; else
\* the variable OPENAI_API_KEY when set and not empty; else the configured
\* openai_api_key when not empty; with none of the four the construction
\* raises "No API key found" and leaves no agent.
C25_KeyPrecedence ==
    \A p \in procs :
        agent[p].pc # "none" =>
            LET given(s) == s # "<None>" /\ s # ""
                set(name) == name \in DOMAIN environ[p] /\ environ[p][name] # ""
            IN  IF given(agent[p].arg)
                THEN agent[p].pc = "ready" /\ agent[p].api_key = agent[p].arg
                ELSE IF set("PRETORIN_LLM_API_KEY")
                THEN /\ agent[p].pc = "ready"
                     /\ agent[p].api_key = environ[p]["PRETORIN_LLM_API_KEY"]
                ELSE IF set("OPENAI_API_KEY")
                THEN /\ agent[p].pc = "ready"
                     /\ agent[p].api_key = environ[p]["OPENAI_API_KEY"]
                ELSE IF given(agent[p].stored)
                THEN agent[p].pc = "ready" /\ agent[p].api_key = agent[p].stored
                ELSE /\ agent[p].pc = "raised"
                     /\ agent[p].error = "No API key found"
                     /\ agent[p].api_key = "<None>"

\* An agent made with an empty argument where both variables are set took
\* PRETORIN_LLM_API_KEY, though a key was stored as well.
C25_Witness ==
    \E p \in procs :
        /\ agent[p].pc = "ready"
        /\ agent[p].arg = ""
        /\ agent[p].stored = "sk-stored"
        /\ "OPENAI_API_KEY" \in DOMAIN environ[p]
        /\ environ[p]["OPENAI_API_KEY"] = "sk-openai-test"
        /\ agent[p].api_key = "sk-pretorin-test"

\* The step is a call of write_config made by p within a run of its agent.
RunWritesConfig(p) ==
    /\ agent[p].pc # "none"
    /\ log'[p] # log[p]
    /\ log'[p] # <<>>
    /\ log'[p][1] = "write_config"

\* The step makes Codex for the agent of p.
RunSpawns(p) == agent'[p].spawned # <<>> /\ agent[p].spawned = <<>>

\* C23: a run of CodexAgent first ensures the binary: from the call of run
\* until ensure_installed has returned, no file of the home directory is
\* written and nothing is spawned, and when ensure_installed raises the run
\* ends with that error, with no config written and nothing spawned.  Then
\* the environment is built and config.toml written, with the provider name
\* "pretorin"; only after write_config returned in this same run is Codex
\* made, with the path ensure_installed returned, at which the binary is
\* installed, and with the environment built in this run.  Every run that
\* spawns has written the config anew.
C23_RunOrder ==
    [][\A p \in procs :
          /\ agent[p].pc = "ensure_installed"
             => /\ home' = home
                /\ agent'[p].spawned = <<>>
                /\ (agent'[p].pc # "ensure_installed" /\ result[p].st = "error")
                   => /\ agent'[p].pc = "ready"
                      /\ agent'[p].error = result[p].kind
          /\ RunWritesConfig(p)
             => /\ pc[p] = "idle"
                /\ ncalls[p] = agent[p].n0 + 1
                /\ agent[p].binary_path = <<"c", "o", "d", "e", "x", "-">> \o version[p]
                /\ is_installed(p)
                /\ agent[p].env # <<>>
                /\ agent[p].spawned = <<>>
                /\ args'[p].provider_name = <<"p", "r", "e", "t", "o", "r", "i", "n">>
          /\ RunSpawns(p)
             => /\ log[p] # <<>>
                /\ log[p][Len(log[p])] = "write config.toml"
                /\ result[p].st = "ok"
                /\ Produced(home.files[HomePath.config])
                /\ ncalls[p] = agent[p].n0 + 1
                /\ agent'[p].spawned[1] = <<"c", "o", "d", "e", "x", "-">> \o version[p]
                /\ is_installed(p)
                /\ agent'[p].spawned[2] = agent[p].env
                /\ agent[p].env.CODEX_HOME = <<"/home/u", ".pretorin", "codex">>
                /\ agent[p].env.OPENAI_API_KEY = agent[p].api_key]_vars

\* The second run of an agent wrote the config again and made Codex with
\* the binary its first run had installed.
C23_Witness ==
    \E p \in procs :
        /\ ncalls[p] = 2
        /\ net = 1
        /\ agent[p].pc = "ready"
        /\ agent[p].spawned # <<>>
        /\ agent[p].spawned[1] = binary_path(p)
        /\ home.files[HomePath.mcp] = JsonObject(<<Entry.github>>)
        /\ Produced(home.files[HomePath.config])

\* The step ends the command "agent install" of p.
InstallCommandEnds(p) == cli[p].pc = "ensure_installed" /\ cli'[p].pc = "idle"

\* C24: "agent install" exits with code 0 and reports the installed path
\* exactly when ensure_installed returned; when ensure_installed failed, of
\* whatever kind the failure (unsupported platform, download, checksum,
\* extraction, file system), the command caught it, printed as its last
\* line "Installation failed" with the error (in JSON mode the object with
\* installed false and the error) and exits with code 1.
C24_InstallReports ==
    [][\A p \in procs :
          InstallCommandEnds(p) =>
             LET said == cli'[p].out[Len(cli'[p].out)]
             IN  IF result[p].st = "ok"
                 THEN /\ cli'[p].exit = 0
                      /\ said[1] \in {"json.installed", "Codex binary installed at"}
                      /\ said[Len(said)] = <<"c", "o", "d", "e", "x", "-">> \o version[p]
                 ELSE /\ cli'[p].exit = 1
                      /\ said = IF cli[p].json
                                THEN <<"json.installed", "false", result[p].kind>>
                                ELSE <<"Installation failed", result[p].kind>>]_vars

\* The digest of an archive is compared before the archive is extracted.
DigestCompared(p) ==
    /\ InLog(p, "Verify.ok")
    /\ actual[p] # <<>>
    /\ actual[p] = CODEX_CHECKSUMS[detect_platform(host)]

\* C28: as shipped, _PLATFORM_TO_TARGET and CODEX_CHECKSUMS have an entry,
\* the digest not empty, for every key _detect_platform returns; so with the
\* pinned version no call warns and skips the verification, and an archive
\* is opened for extraction, and a binary marked executable, only after its
\* SHA-256 digest was compared with the registered one and found equal.
C28_ShippedTablesComplete ==
    /\ \A h \in PlatformHosts :
          detect_platform(h) # "unsupported" =>
             /\ detect_platform(h) \in DOMAIN PLATFORM_TO_TARGET
             /\ detect_platform(h) \in DOMAIN CODEX_CHECKSUMS
             /\ CODEX_CHECKSUMS[detect_platform(h)] # <<>>
    /\ \A p \in procs :
          /\ ~InLog(p, "Verify.skipped")
          /\ ~InLog(p, "warning")
          /\ (InLog(p, "Extract") \/ InLog(p, "SetPermissions") \/ pc[p] \in {"extract", "chmod"})
             => DigestCompared(p)

\* On a Linux host the digest of the downloaded archive was compared, and
\* the binary installed.
C28_Witness ==
    \E p \in procs :
        /\ host = <<"LINUX", "X86_64">>
        /\ InLog(p, "Verify.ok")
        /\ InLog(p, "SetPermissions.ok")
        /\ is_installed(p)

\* C26: the pipeline takes no lock.  A process that finds the binary
\* NotInstalled enters the pipeline whether or not another process is in it
\* for the same path, and a process that opens the destination for writing
\* empties the file there and leaves its mode as it is: where another
\* process has finished in between, the path stays executable, Installed for
\* every observer, while its content is truncated, and stays so if the copy
\* then breaks.  The interleaving exists (the witness).
C26_NoLock ==
    [][\A p \in procs :
          /\ (Calls(p) /\ ~is_installed(p)) => pc'[p] = "download"
          /\ (pc[p] = "extract" /\ pc'[p] = "copy")
             => /\ bin'[binary_path(p)].data = ""
                /\ bin[binary_path(p)].exists
                   => bin'[binary_path(p)].mode = bin[binary_path(p)].mode
                /\ is_installed(p) => is_installed(p)'
          /\ (pc[p] = "copy" /\ result'[p].st = "error" /\ is_installed(p))
             => /\ is_installed(p)'
                /\ ~bin'[binary_path(p)].full]_vars

\* Both processes found the binary missing; one has installed it and was
\* handed the path, the other has since opened the same path for writing:
\* the file is executable and empty.
C26_Witness ==
    \E p, q \in procs :
        /\ p # q
        /\ binary_path(p) = binary_path(q)
        /\ ~dest0[p].exists
        /\ ~dest0[q].exists
        /\ pc[q] = "idle"
        /\ result[q] = Ok(binary_path(q))
        /\ InLog(q, "SetPermissions.ok")
        /\ pc[p] = "copy"
        /\ is_installed(q)
        /\ bin[binary_path(q)].data = ""

\* The file is one MCPConfigManager saved.
SavedByManager(mcp) == Len(mcp) = 2 /\ mcp[1] = "<json object, servers a list>"

\* C30: the mcp.json left by calls of MCPConfigManager.add_server with scope
\* "global" and of remove_server, in any sequence, is accepted by
\* write_config: a call with a valid provider name returns, and the config it
\* writes has, after the reserved subsection, one subsection
\* [mcp_servers.<name>] for each server saved in the file that is not named
\* pretorin; and a call over a file that is absent or not JSON returns with
\* the reserved subsection alone.
C30_SharedFormat ==
    [][\A p \in procs :
          (/\ log'[p] # log[p]
           /\ WroteConfig(p)
           /\ FitsBareKeyPattern(args'[p].provider_name))
          => LET mcp == home.files[HomePath.mcp]
                 names == SideFileNames(mcp)
                 headers == SelectSeq(SplitLines(home'.files[HomePath.config]), IsMcpHeader)
             IN  (SavedByManager(mcp) \/ mcp \in {NoText, InvalidJson})
                 => /\ result'[p].st = "ok"
                    /\ headers = <<Lit.mcp_pretorin>> \o
                                 [i \in 1 .. Len(names) |->
                                     Lit.mcp_servers \o names[i] \o <<"]">>]]_vars

====
